---- MODULE Spec2Model ----
(***************************************************************************)
(* Room/session server of "Who Is My Friend" (the Socket.IO server whose   *)
(* text is in src/tailwind.config.js, lines 22-498): rooms, players,       *)
(* the socket and session indices, the disconnect-grace timers, the phase  *)
(* machine and the reveal computation.  One action per socket handler and  *)
(* one for a grace timer firing.  Node runs every handler and every timer  *)
(* callback to completion on one thread, so each is one atomic step.       *)
(***************************************************************************)
EXTENDS Integers, Sequences, FiniteSets, TLC

\* ------------------------------------------------------------------ bounds
\* Connections opened in one run (socket.id is fresh for each).
MaxSockets == 2
\* Players created in one run (player.id is a fresh UUID for each).
MaxPlayers == 2
\* Session tokens in circulation (client supplied, or a fresh UUID).
MaxTokens == 2
\* Room codes the generator draws from (the code draws from 9000).
MaxCodes == 2
\* Roster length of the reveal specification.
MaxRoster == 3

\* ------------------------------------------------------- program constants
\* generateRoomCode: String(Math.floor(1000 + Math.random() * 9000)).
CodeBase == 1000

\* The client's name field: maxLength={10}, trimmed length <= 10.
MaxNameLength == 10

Null == "null"
NoCode == 0
NoToken == 0

Least(S) == CHOOSE i \in S : \A j \in S : i <= j

Sockets == 1..MaxSockets
PlayerIds == 1..MaxPlayers
Tokens == 1..MaxTokens
Codes == CodeBase..(CodeBase + MaxCodes - 1)

Phases == <<"lobby", "roles", "ready", "reveal">>

\* Inputs a client may put in a request.
CodeInputs == Codes \cup {NoCode}
GameInputs == {"avalon", "nogame"}
RoleInputs == {"merlin", "assassin", "nosuch"}
SessionInputs == Tokens \cup {NoToken}

VARIABLES gameMap, rooms, socketIndex, sessionIndex, open, issued, sent, last

vars == <<gameMap, rooms, socketIndex, sessionIndex, open, issued, sent, last>>

\* ------------------------------------------------------------ map helpers
EmptyMap == [x \in {} |-> Null]
MapSet(f, k, v) == [x \in (DOMAIN f) \cup {k} |-> IF x = k THEN v ELSE f[x]]
MapDelete(f, k) == [x \in (DOMAIN f) \ {k} |-> f[x]]

SeqRange(s) == {s[i] : i \in 1..Len(s)}
RECURSIVE SeqMap(_, _)
SeqMap(f(_), s) == IF s = << >> THEN << >> ELSE <<f(Head(s))>> \o SeqMap(f, Tail(s))

\* ------------------------------------------------------------- the catalog
AvalonRoles ==
  << [id |-> "merlin", partyId |-> "good"],
     [id |-> "assassin", partyId |-> "evil"],
     [id |-> "percival", partyId |-> "good"],
     [id |-> "oberon", partyId |-> Null] >>

Rule(roleId, scope, roleIds, partyIds, includeSelf) ==
  [roleId |-> roleId, scope |-> scope, visibleRoleIds |-> roleIds,
   visiblePartyIds |-> partyIds, includeSelf |-> includeSelf]

Game(rules) == [id |-> "avalon", roles |-> AvalonRoles, revealRules |-> rules]

\* The catalog of the running server: merlin sees the assassin, percival sees
\* the evil party, the assassin has no rule.
AvalonRules ==
  << Rule("merlin", Null, {"assassin"}, {}, Null),
     Rule("percival", Null, {}, {"evil"}, Null) >>

loadGames == {[g \in {"avalon"} |-> Game(AvalonRules)]}

\* ---------------------------------------------------------------- players
\* createPlayer(name, socketId, sessionId); id is the fresh crypto.randomUUID().
createPlayer(id, name, socketId, sessionId) ==
  [id |-> id, name |-> name, socketId |-> socketId, sessionId |-> sessionId,
   roleId |-> Null, hasSubmittedRole |-> FALSE, connected |-> TRUE,
   disconnectTimer |-> Null]

AllPlayers == UNION {SeqRange(rooms[c].players) : c \in DOMAIN rooms}

\* crypto.randomUUID() for a player and socket.id for a connection never repeat:
\* the n-th one issued is n.
FreshPlayerIds == {i \in PlayerIds : i > issued.players}
FreshSockets == {i \in Sockets : i > issued.sockets}

\* crypto.randomUUID() for a session: a token nothing in the server refers to.
ReferencedTokens ==
  {p.sessionId : p \in AllPlayers}
    \cup {socketIndex[s].sessionId : s \in DOMAIN socketIndex}
    \cup DOMAIN sessionIndex
FreshTokens == Tokens \ ReferencedTokens

\* room.players.get(playerId): the position in insertion order, 0 when absent.
PlayerIndex(room, playerId) ==
  IF \E i \in 1..Len(room.players) : room.players[i].id = playerId
  THEN CHOOSE i \in 1..Len(room.players) : room.players[i].id = playerId
  ELSE 0

\* room.players.delete(playerId): the other entries keep their order.
DeletePlayer(players, playerId) ==
  LET keep(p) == p.id # playerId IN SelectSeq(players, keep)

\* const sessionId = rawSessionId || crypto.randomUUID()
SessionIdOf(rawSessionId) ==
  IF rawSessionId # NoToken THEN rawSessionId ELSE Least(FreshTokens)

\* generateRoomCode without the retry loop: the first draw is returned.
generateRoomCodeOnce == Codes

\* generateRoomCode: draws until the code is not a key of rooms.
generateRoomCode == {c \in Codes : c \notin DOMAIN rooms}

\* bindSession, the part that writes the player.
bindSession(player, sessionId, socketId) ==
  [player EXCEPT !.socketId = socketId, !.sessionId = sessionId,
                 !.connected = TRUE, !.disconnectTimer = Null]

\* resetRoles that blanks the role ids and leaves the submitted flags.
resetRolesKeepsFlags(room) ==
  LET clear(p) == [p EXCEPT !.roleId = Null]
  IN [room EXCEPT !.players = SeqMap(clear, room.players)]

\* resetRoles that lowers the submitted flags and leaves the role ids.
resetRolesKeepsRoleIds(room) ==
  LET clear(p) == [p EXCEPT !.hasSubmittedRole = FALSE]
  IN [room EXCEPT !.players = SeqMap(clear, room.players)]

\* resetRoles(room): every player's roleId = null, hasSubmittedRole = false
resetRoles(room) ==
  LET clear(p) == [p EXCEPT !.roleId = Null, !.hasSubmittedRole = FALSE]
  IN [room EXCEPT !.players = SeqMap(clear, room.players)]

\* --------------------------------------------------------------- messages
ToSocket(s) == [kind |-> "socket", id |-> s]
ToGroup(code) == [kind |-> "group", id |-> code]
Msg(to, event, payload) == [to |-> to, event |-> event, payload |-> payload]

\* serializeRoom spreading the whole player into the payload's entry.
serializeRoomWhole(room) ==
  [code |-> room.code, ownerId |-> room.ownerId, gameId |-> room.gameId,
   phase |-> room.phase, players |-> room.players]

serializeRoom(room) ==
  LET public(p) == [id |-> p.id, name |-> p.name, hasSubmittedRole |-> p.hasSubmittedRole]
  IN [code |-> room.code, ownerId |-> room.ownerId, gameId |-> room.gameId,
      phase |-> room.phase, players |-> SeqMap(public, room.players)]

emitRoomState(room) == Msg(ToGroup(room.code), "room:state", serializeRoom(room))

\* emitError through io.emit: the error goes to every connection.
emitErrorToAll(s, message) ==
  Msg([kind |-> "all", id |-> 0], "room:error", [message |-> message])

\* emitError(socket, message): socket.emit("room:error", { message })
emitError(s, message) == Msg(ToSocket(s), "room:error", [message |-> message])

roomJoined(s, playerId, isOwner, code, sessionId) ==
  Msg(ToSocket(s), "room:joined",
      [playerId |-> playerId, isOwner |-> isOwner, code |-> code, sessionId |-> sessionId])

\* ------------------------------------------------------------- the reveal
RevealEntry(p) == [playerId |-> p.id, name |-> p.name, roleId |-> p.roleId]

\* The rule lookup falling back to scope all.
FindRuleDefaultAll(game, roleId) ==
  LET hits == {i \in 1..Len(game.revealRules) : game.revealRules[i].roleId = roleId}
  IN IF hits = {} THEN Rule(roleId, "all", {}, {}, Null)
     ELSE game.revealRules[Least(hits)]

\* game.revealRules.find(entry => entry.roleId === player.roleId) || {scope: "self"}
FindRule(game, roleId) ==
  LET hits == {i \in 1..Len(game.revealRules) : game.revealRules[i].roleId = roleId}
  IN IF hits = {} THEN Rule(roleId, "self", {}, {}, Null)
     ELSE game.revealRules[Least(hits)]

\* The role lookup that finds every id.
HasAnyRole(game, roleId) == TRUE

\* roleById.has(roleId), roleById.get(roleId); game.roles.find(role => role.id === roleId)
HasRole(game, roleId) == \E i \in 1..Len(game.roles) : game.roles[i].id = roleId
RoleById(game, roleId) ==
  game.roles[CHOOSE i \in 1..Len(game.roles) : game.roles[i].id = roleId]

\* The filter without its party clause.
VisibleToRolesOnly(game, rule, player, item) ==
  \/ rule.includeSelf = "true" /\ item.id = player.id
  \/ item.roleId \in rule.visibleRoleIds

\* The filter reading includeSelf as set unless it is false.
VisibleToSelfUnlessFalse(game, rule, player, item) ==
  \/ rule.includeSelf # "false" /\ item.id = player.id
  \/ item.roleId \in rule.visibleRoleIds
  \/ /\ HasRole(game, item.roleId)
     /\ RoleById(game, item.roleId).partyId # Null
     /\ RoleById(game, item.roleId).partyId \in rule.visiblePartyIds

\* The filter of the custom branch.  A rule without visibleRoleIds or
\* visiblePartyIds carries the empty set here: the code reads `list || []`.
VisibleTo(game, rule, player, item) ==
  \/ rule.includeSelf = "true" /\ item.id = player.id
  \/ item.roleId \in rule.visibleRoleIds
  \/ /\ HasRole(game, item.roleId)
     /\ RoleById(game, item.roleId).partyId # Null
     /\ RoleById(game, item.roleId).partyId \in rule.visiblePartyIds

\* getRevealForPlayer that puts the player, when the filter passes it, in front
\* of the filtered list.
getRevealForPlayerSelfFirst(room, player) ==
  IF room.gameId \notin DOMAIN gameMap
  THEN [gameId |-> room.gameId, visiblePlayers |-> << >>]
  ELSE LET game == gameMap[room.gameId]
           rule == FindRule(game, player.roleId)
           visible(item) == VisibleTo(game, rule, player, item)
           front == IF visible(player) THEN <<RevealEntry(player)>> ELSE << >>
       IN IF rule.scope = "all"
          THEN [gameId |-> room.gameId,
                visiblePlayers |-> SeqMap(RevealEntry, room.players)]
          ELSE IF rule.scope = "self"
          THEN [gameId |-> room.gameId, visiblePlayers |-> <<RevealEntry(player)>>]
          ELSE [gameId |-> room.gameId,
                visiblePlayers |-> front \o SeqMap(RevealEntry,
                                                   SelectSeq(room.players, visible))]

\* getRevealForPlayer whose scope all lists the others and leaves the player out.
getRevealForPlayerOthers(room, player) ==
  IF room.gameId \notin DOMAIN gameMap
  THEN [gameId |-> room.gameId, visiblePlayers |-> << >>]
  ELSE LET game == gameMap[room.gameId]
           rule == FindRule(game, player.roleId)
           visible(item) == VisibleTo(game, rule, player, item)
           other(item) == item.id # player.id
       IN IF rule.scope = "all"
          THEN [gameId |-> room.gameId,
                visiblePlayers |-> SeqMap(RevealEntry, SelectSeq(room.players, other))]
          ELSE IF rule.scope = "self"
          THEN [gameId |-> room.gameId, visiblePlayers |-> <<RevealEntry(player)>>]
          ELSE [gameId |-> room.gameId,
                visiblePlayers |-> SeqMap(RevealEntry, SelectSeq(room.players, visible))]

getRevealForPlayer(room, player) ==
  IF room.gameId \notin DOMAIN gameMap
  THEN [gameId |-> room.gameId, visiblePlayers |-> << >>]
  ELSE LET game == gameMap[room.gameId]
           rule == FindRule(game, player.roleId)
           visible(item) == VisibleTo(game, rule, player, item)
       IN IF rule.scope = "all"
          THEN [gameId |-> room.gameId,
                visiblePlayers |-> SeqMap(RevealEntry, room.players)]
          ELSE IF rule.scope = "self"
          THEN [gameId |-> room.gameId, visiblePlayers |-> <<RevealEntry(player)>>]
          ELSE [gameId |-> room.gameId,
                visiblePlayers |-> SeqMap(RevealEntry, SelectSeq(room.players, visible))]

\* emitReveal computing the payload for the room's owner instead of the member.
emitRevealOfOwner(room, player) ==
  Msg(ToSocket(player.socketId), "room:reveal",
      getRevealForPlayer(room, room.players[PlayerIndex(room, room.ownerId)]))

\* io.to(member.socketId).emit("room:reveal", getRevealForPlayer(room, member))
emitReveal(room, player) ==
  Msg(ToSocket(player.socketId), "room:reveal", getRevealForPlayer(room, player))

\* The redelivery without the phase test.
restoreRevealAnyPhase(room, player) ==
  IF player.roleId # Null THEN <<emitReveal(room, player)>> ELSE << >>

\* session:restore: if (room.phase === "reveal" && player.roleId) the reveal of
\* the restored player is computed again and sent.
restoreReveal(room, player) ==
  IF room.phase = "reveal" /\ player.roleId # Null
  THEN <<emitReveal(room, player)>> ELSE << >>

\* ------------------------------------------------------------- departures
\* NextOwner reading .id off the iterator result instead of its value: undefined.
NextOwnerUndefined(players) == 0

\* The owner's place handed to the member who joined last.
NextOwnerLast(players) == players[Len(players)].id

\* room.players.values().next().value.id: the first player in insertion order.
NextOwner(players) == players[1].id

\* removePlayerFromRoom that serializes the room before the player is deleted.
removePlayerFromRoomEmitsFirst(room, playerId, sessionId, socketId) ==
  IF PlayerIndex(room, playerId) = 0
  THEN [rooms |-> rooms, sessionIndex |-> sessionIndex, socketIndex |-> socketIndex,
        sent |-> << >>]
  ELSE LET players2 == DeletePlayer(room.players, playerId)
           sessions2 == IF sessionId # NoToken THEN MapDelete(sessionIndex, sessionId)
                        ELSE sessionIndex
           sockets2 == MapDelete(socketIndex, socketId)
           room2 == [room EXCEPT !.players = players2,
                                 !.ownerId = IF room.ownerId = playerId
                                             THEN NextOwner(players2) ELSE room.ownerId]
       IN IF Len(players2) = 0
          THEN [rooms |-> MapDelete(rooms, room.code), sessionIndex |-> sessions2,
                socketIndex |-> sockets2, sent |-> << >>]
          ELSE [rooms |-> MapSet(rooms, room.code, room2), sessionIndex |-> sessions2,
                socketIndex |-> sockets2, sent |-> <<emitRoomState(room)>>]

\* removePlayerFromRoom without socketIndex.delete(socketId).
removePlayerFromRoomKeepsSocket(room, playerId, sessionId, socketId) ==
  IF PlayerIndex(room, playerId) = 0
  THEN [rooms |-> rooms, sessionIndex |-> sessionIndex, socketIndex |-> socketIndex,
        sent |-> << >>]
  ELSE LET players2 == DeletePlayer(room.players, playerId)
           sessions2 == IF sessionId # NoToken THEN MapDelete(sessionIndex, sessionId)
                        ELSE sessionIndex
           room2 == [room EXCEPT !.players = players2,
                                 !.ownerId = IF room.ownerId = playerId
                                             THEN NextOwner(players2) ELSE room.ownerId]
       IN IF Len(players2) = 0
          THEN [rooms |-> MapDelete(rooms, room.code), sessionIndex |-> sessions2,
                socketIndex |-> socketIndex, sent |-> << >>]
          ELSE [rooms |-> MapSet(rooms, room.code, room2), sessionIndex |-> sessions2,
                socketIndex |-> socketIndex, sent |-> <<emitRoomState(room2)>>]

\* removePlayerFromRoom(io, room, playerId, sessionId, socketId): the tables and
\* the messages it leaves behind.
removePlayerFromRoom(room, playerId, sessionId, socketId) ==
  IF PlayerIndex(room, playerId) = 0
  THEN [rooms |-> rooms, sessionIndex |-> sessionIndex, socketIndex |-> socketIndex,
        sent |-> << >>]
  ELSE LET players2 == DeletePlayer(room.players, playerId)
           sessions2 == IF sessionId # NoToken THEN MapDelete(sessionIndex, sessionId)
                        ELSE sessionIndex
           sockets2 == MapDelete(socketIndex, socketId)
           room2 == [room EXCEPT !.players = players2,
                                 !.ownerId = IF room.ownerId = playerId
                                             THEN NextOwner(players2) ELSE room.ownerId]
       IN IF Len(players2) = 0
          THEN [rooms |-> MapDelete(rooms, room.code), sessionIndex |-> sessions2,
                socketIndex |-> sockets2, sent |-> << >>]
          ELSE [rooms |-> MapSet(rooms, room.code, room2), sessionIndex |-> sessions2,
                socketIndex |-> sockets2, sent |-> <<emitRoomState(room2)>>]

\* graceExpiry without the size check: the emptied room stays in the table.
graceExpiryKeepsEmpty(room, player) ==
  LET players2 == DeletePlayer(room.players, player.id)
      sessions2 == MapDelete(sessionIndex, player.sessionId)
      room2 == [room EXCEPT !.players = players2,
                            !.ownerId = IF room.ownerId = player.id /\ players2 # << >>
                                        THEN NextOwner(players2) ELSE room.ownerId]
  IN [rooms |-> MapSet(rooms, room.code, room2), sessionIndex |-> sessions2,
      socketIndex |-> socketIndex, sent |-> <<emitRoomState(room2)>>]

\* graceExpiry that clears the roles of those who stay.
graceExpiryResetsRoles(room, player) ==
  LET players2 == DeletePlayer(room.players, player.id)
      sessions2 == MapDelete(sessionIndex, player.sessionId)
      room2 == resetRoles([room EXCEPT !.players = players2,
                                       !.ownerId = IF room.ownerId = player.id
                                                   THEN NextOwner(players2)
                                                   ELSE room.ownerId])
  IN IF Len(players2) = 0
     THEN [rooms |-> MapDelete(rooms, room.code), sessionIndex |-> sessions2,
           socketIndex |-> socketIndex, sent |-> << >>]
     ELSE [rooms |-> MapSet(rooms, room.code, room2), sessionIndex |-> sessions2,
           socketIndex |-> socketIndex, sent |-> <<emitRoomState(room2)>>]

\* graceExpiry without sessionIndex.delete(player.sessionId).
graceExpiryKeepsSession(room, player) ==
  LET players2 == DeletePlayer(room.players, player.id)
      room2 == [room EXCEPT !.players = players2,
                            !.ownerId = IF room.ownerId = player.id
                                        THEN NextOwner(players2) ELSE room.ownerId]
  IN IF Len(players2) = 0
     THEN [rooms |-> MapDelete(rooms, room.code), sessionIndex |-> sessionIndex,
           socketIndex |-> socketIndex, sent |-> << >>]
     ELSE [rooms |-> MapSet(rooms, room.code, room2), sessionIndex |-> sessionIndex,
           socketIndex |-> socketIndex, sent |-> <<emitRoomState(room2)>>]

\* The callback handed to setTimeout by the disconnect handler, for a player
\* that is not connected when it runs.
graceExpiry(room, player) ==
  LET players2 == DeletePlayer(room.players, player.id)
      sessions2 == MapDelete(sessionIndex, player.sessionId)
      room2 == [room EXCEPT !.players = players2,
                            !.ownerId = IF room.ownerId = player.id
                                        THEN NextOwner(players2) ELSE room.ownerId]
  IN IF Len(players2) = 0
     THEN [rooms |-> MapDelete(rooms, room.code), sessionIndex |-> sessions2,
           socketIndex |-> socketIndex, sent |-> << >>]
     ELSE [rooms |-> MapSet(rooms, room.code, room2), sessionIndex |-> sessions2,
           socketIndex |-> socketIndex, sent |-> <<emitRoomState(room2)>>]

\* The test of the auto-advance that never passes.
allSubmittedNever(room) == FALSE

\* allSubmitted written with some() in place of every().
someSubmitted(room) == \E i \in 1..Len(room.players) : room.players[i].hasSubmittedRole

\* Array.from(room.players.values()).every(item => item.hasSubmittedRole)
allSubmitted(room) == \A i \in 1..Len(room.players) : room.players[i].hasSubmittedRole

\* index && index.playerId === room.ownerId
\* The owner test asking for a member of the room instead.
IsMemberSocket(s, room) ==
  s \in DOMAIN socketIndex /\ PlayerIndex(room, socketIndex[s].playerId) # 0

IsOwnerSocket(s, room) == s \in DOMAIN socketIndex /\ socketIndex[s].playerId = room.ownerId

\* String(name || "").trim().toLowerCase(), on names spelled as sequences of
\* characters: " " is the blank, "A" and "B" fold to "a" and "b".
IsBlank(ch) == ch = " "
toLowerCase(ch) == IF ch = "A" THEN "a" ELSE IF ch = "B" THEN "b" ELSE ch
RECURSIVE trimStart(_)
trimStart(name) ==
  IF name # << >> /\ IsBlank(Head(name)) THEN trimStart(Tail(name)) ELSE name
RECURSIVE trimEnd(_)
trimEnd(name) ==
  IF name # << >> /\ IsBlank(name[Len(name)])
  THEN trimEnd(SubSeq(name, 1, Len(name) - 1)) ELSE name
trim(name) == trimEnd(trimStart(name))
\* normalizeName without toLowerCase.
normalizeNameCased(name) == trim(name)

\* normalizeName(name): String(name || "").trim().toLowerCase()
normalizeName(name) == SeqMap(toLowerCase, trim(name))

\* Array.from(room.players.values()).some(p => normalizeName(p.name) === normalizedName)
nameTaken(room, name) ==
  \E i \in 1..Len(room.players) :
    normalizeName(room.players[i].name) = normalizeName(name)

\* ----------------------------------------------------------- the requests
\* What the last step was: the handler, the connection it ran for, the room code
\* of the request (of the timer) and the token of a session:restore.
Op(op, s, code, sessionId) ==
  [op |-> op, socket |-> s, code |-> code, sessionId |-> sessionId]

Init ==
  /\ gameMap \in loadGames
  /\ rooms = EmptyMap
  /\ socketIndex = EmptyMap
  /\ sessionIndex = EmptyMap
  /\ open = {}
  /\ issued = [players |-> 0, sockets |-> 0]
  /\ sent = << >>
  /\ last = Op("init", 0, NoCode, NoToken)

\* io.on("connection"): a client opens a connection, which gets a fresh socket.id.
Connect ==
  /\ FreshSockets # {}
  /\ open' = open \cup {Least(FreshSockets)}
  /\ sent' = << >>
  /\ last' = Op("connection", Least(FreshSockets), NoCode, NoToken)
  /\ issued' = [issued EXCEPT !.sockets = @ + 1]
  /\ UNCHANGED <<gameMap, rooms, socketIndex, sessionIndex>>

\* The early return of session:restore made an error reply.
restoreMissError(s) == <<emitError(s, "Session not found")>>

\* session:restore finding no token, no entry, no room or no player: return,
\* with nothing sent.
restoreMiss(s) == << >>

\* socket.on("session:restore")
Restore(s, sessionId) ==
  /\ s \in open
  /\ last' = Op("session:restore", s, NoCode, sessionId)
  /\ UNCHANGED gameMap
  /\ IF sessionId = NoToken \/ sessionId \notin DOMAIN sessionIndex
     THEN /\ sent' = restoreMiss(s)
          /\ UNCHANGED <<rooms, socketIndex, sessionIndex, open, issued>>
     ELSE LET session == sessionIndex[sessionId] IN
          IF \/ session.code \notin DOMAIN rooms
             \/ PlayerIndex(rooms[session.code], session.playerId) = 0
          THEN /\ sessionIndex' = MapDelete(sessionIndex, sessionId)
               /\ sent' = restoreMiss(s)
               /\ UNCHANGED <<rooms, socketIndex, open, issued>>
          ELSE LET room == rooms[session.code]
                   i == PlayerIndex(room, session.playerId)
                   player == bindSession(room.players[i], sessionId, s)
                   room2 == [room EXCEPT !.players[i] = player]
               IN /\ rooms' = MapSet(rooms, room.code, room2)
                  /\ socketIndex' = MapSet(socketIndex, s,
                         [code |-> room.code, playerId |-> player.id, sessionId |-> sessionId])
                  /\ sessionIndex' = MapSet(sessionIndex, sessionId,
                         [code |-> room.code, playerId |-> player.id])
                  /\ sent' = <<roomJoined(s, player.id, player.id = room.ownerId,
                                          room.code, sessionId),
                               emitRoomState(room2)>>
                             \o restoreReveal(room2, player)
                  /\ UNCHANGED <<open, issued>>

\* socket.on("room:create").  code is what generateRoomCode returns: with every
\* code taken it never returns, and the handler does not complete.
Create(s, name, rawSessionId, code) ==
  /\ s \in open
  /\ last' = Op("room:create", s, NoCode, NoToken)
  /\ UNCHANGED <<gameMap, open>>
  /\ IF name = << >>
     THEN /\ sent' = <<emitError(s, "Name is required")>>
          /\ UNCHANGED <<rooms, socketIndex, sessionIndex, issued>>
     ELSE /\ FreshPlayerIds # {}
          /\ rawSessionId = NoToken => FreshTokens # {}
          /\ code \in generateRoomCode
          /\ LET sessionId == SessionIdOf(rawSessionId)
                 player == createPlayer(Least(FreshPlayerIds), name, s, sessionId)
                 room == [code |-> code, ownerId |-> player.id, gameId |-> Null,
                          phase |-> "lobby",
                          players |-> <<bindSession(player, sessionId, s)>>]
             IN /\ rooms' = MapSet(rooms, code, room)
                /\ socketIndex' = MapSet(socketIndex, s,
                       [code |-> code, playerId |-> player.id, sessionId |-> sessionId])
                /\ sessionIndex' = MapSet(sessionIndex, sessionId,
                       [code |-> code, playerId |-> player.id])
                /\ issued' = [issued EXCEPT !.players = @ + 1]
                /\ sent' = <<roomJoined(s, player.id, TRUE, code, sessionId),
                             emitRoomState(room)>>

\* room:join without the phase test.
joinErrorAnyPhase(code, name) ==
  IF code = NoCode \/ name = << >> THEN "Code and name are required"
  ELSE IF code \notin DOMAIN rooms THEN "Room not found"
  ELSE IF nameTaken(rooms[code], name) THEN "That name is already taken in this room"
  ELSE Null

\* room:join, the tests before the player is made: the error answered, or Null.
joinError(code, name) ==
  IF code = NoCode \/ name = << >> THEN "Code and name are required"
  ELSE IF code \notin DOMAIN rooms THEN "Room not found"
  ELSE IF nameTaken(rooms[code], name) THEN "That name is already taken in this room"
  ELSE IF rooms[code].phase # "lobby" THEN "Game already started"
  ELSE Null

\* socket.on("room:join")
Join(s, code, name, rawSessionId) ==
  /\ s \in open
  /\ last' = Op("room:join", s, code, NoToken)
  /\ UNCHANGED <<gameMap, open>>
  /\ IF joinError(code, name) # Null
     THEN /\ sent' = <<emitError(s, joinError(code, name))>>
          /\ UNCHANGED <<rooms, socketIndex, sessionIndex, issued>>
     ELSE /\ FreshPlayerIds # {}
          /\ rawSessionId = NoToken => FreshTokens # {}
          /\ LET sessionId == SessionIdOf(rawSessionId)
                 player == createPlayer(Least(FreshPlayerIds), name, s, sessionId)
                 room2 == [rooms[code] EXCEPT
                             !.players = Append(@, bindSession(player, sessionId, s))]
             IN /\ rooms' = MapSet(rooms, code, room2)
                /\ socketIndex' = MapSet(socketIndex, s,
                       [code |-> code, playerId |-> player.id, sessionId |-> sessionId])
                /\ sessionIndex' = MapSet(sessionIndex, sessionId,
                       [code |-> code, playerId |-> player.id])
                /\ issued' = [issued EXCEPT !.players = @ + 1]
                /\ sent' = <<roomJoined(s, player.id, FALSE, code, sessionId),
                             emitRoomState(room2)>>

\* socket.on("room:selectGame")
SelectGame(s, code, gameId) ==
  /\ s \in open
  /\ last' = Op("room:selectGame", s, code, NoToken)
  /\ UNCHANGED <<gameMap, socketIndex, sessionIndex, open, issued>>
  /\ IF code \notin DOMAIN rooms
     THEN /\ sent' = <<emitError(s, "Room not found")>>
          /\ UNCHANGED rooms
     ELSE IF ~IsOwnerSocket(s, rooms[code])
     THEN /\ sent' = <<emitError(s, "Only the host can select the game")>>
          /\ UNCHANGED rooms
     ELSE IF gameId \notin DOMAIN gameMap
     THEN /\ sent' = <<emitError(s, "Unknown game")>>
          /\ UNCHANGED rooms
     ELSE LET room2 == resetRoles([rooms[code] EXCEPT !.gameId = gameId,
                                                     !.phase = "lobby"])
          IN /\ rooms' = MapSet(rooms, code, room2)
             /\ sent' = <<emitRoomState(room2)>>

\* room:start without its test for a game.
gameSelectedAlways(room) == TRUE

\* room:start: if (!room.gameId) the request is refused.
gameSelected(room) == room.gameId # Null

\* socket.on("room:start")
Start(s, code) ==
  /\ s \in open
  /\ last' = Op("room:start", s, code, NoToken)
  /\ UNCHANGED <<gameMap, socketIndex, sessionIndex, open, issued>>
  /\ IF code \notin DOMAIN rooms
     THEN /\ sent' = <<emitError(s, "Room not found")>>
          /\ UNCHANGED rooms
     ELSE IF ~IsOwnerSocket(s, rooms[code])
     THEN /\ sent' = <<emitError(s, "Only the host can start the game")>>
          /\ UNCHANGED rooms
     ELSE IF ~gameSelected(rooms[code])
     THEN /\ sent' = <<emitError(s, "Select a game first")>>
          /\ UNCHANGED rooms
     ELSE LET room2 == resetRoles([rooms[code] EXCEPT !.phase = "roles"])
          IN /\ rooms' = MapSet(rooms, code, room2)
             /\ sent' = <<emitRoomState(room2)>>

\* socket.on("room:reset")
Reset(s, code) ==
  /\ s \in open
  /\ last' = Op("room:reset", s, code, NoToken)
  /\ UNCHANGED <<gameMap, socketIndex, sessionIndex, open, issued>>
  /\ IF code \notin DOMAIN rooms
     THEN /\ sent' = <<emitError(s, "Room not found")>>
          /\ UNCHANGED rooms
     ELSE IF ~IsOwnerSocket(s, rooms[code])
     THEN /\ sent' = <<emitError(s, "Only the host can reset the game")>>
          /\ UNCHANGED rooms
     ELSE LET room2 == resetRoles([rooms[code] EXCEPT !.gameId = Null,
                                                     !.phase = "lobby"])
          IN /\ rooms' = MapSet(rooms, code, room2)
             /\ sent' = <<emitRoomState(room2),
                          Msg(ToGroup(code), "room:reset", [message |-> Null])>>

\* socket.on("room:leave")
Leave(s) ==
  /\ s \in open
  /\ last' = Op("room:leave", s, NoCode, NoToken)
  /\ UNCHANGED <<gameMap, open, issued>>
  /\ IF s \notin DOMAIN socketIndex
     THEN /\ sent' = << >>
          /\ UNCHANGED <<rooms, socketIndex, sessionIndex>>
     ELSE LET index == socketIndex[s] IN
          IF index.code \notin DOMAIN rooms
          THEN /\ socketIndex' = MapDelete(socketIndex, s)
               /\ sessionIndex' = IF index.sessionId # NoToken
                                  THEN MapDelete(sessionIndex, index.sessionId)
                                  ELSE sessionIndex
               /\ sent' = << >>
               /\ UNCHANGED <<rooms>>
          ELSE LET after == removePlayerFromRoom(rooms[index.code], index.playerId,
                                                 index.sessionId, s)
               IN /\ rooms' = after.rooms
                  /\ sessionIndex' = after.sessionIndex
                  /\ socketIndex' = after.socketIndex
                  /\ sent' = after.sent \o <<Msg(ToSocket(s), "room:left", [message |-> Null])>>

\* A submit that flips the submitted flag instead of setting it.
assignRoleToggle(player, roleId) ==
  [player EXCEPT !.roleId = roleId, !.hasSubmittedRole = ~@]

\* player.roleId = roleId; player.hasSubmittedRole = true
assignRole(player, roleId) ==
  [player EXCEPT !.roleId = roleId, !.hasSubmittedRole = TRUE]

\* socket.on("role:submit")
Submit(s, code, roleId) ==
  /\ s \in open
  /\ last' = Op("role:submit", s, code, NoToken)
  /\ UNCHANGED <<gameMap, socketIndex, sessionIndex, open, issued>>
  /\ IF code \notin DOMAIN rooms \/ s \notin DOMAIN socketIndex
     THEN /\ sent' = <<emitError(s, "Room not found")>>
          /\ UNCHANGED rooms
     ELSE IF rooms[code].phase # "roles"
     THEN /\ sent' = <<emitError(s, "Roles are not open yet")>>
          /\ UNCHANGED rooms
     ELSE IF PlayerIndex(rooms[code], socketIndex[s].playerId) = 0
     THEN /\ sent' = <<emitError(s, "Player not found")>>
          /\ UNCHANGED rooms
     ELSE IF \/ rooms[code].gameId \notin DOMAIN gameMap
             \/ ~HasRole(gameMap[rooms[code].gameId], roleId)
     THEN /\ sent' = <<emitError(s, "Unknown role")>>
          /\ UNCHANGED rooms
     ELSE LET i == PlayerIndex(rooms[code], socketIndex[s].playerId)
              room2 == [rooms[code] EXCEPT !.players[i] = assignRole(@, roleId)]
              room3 == [room2 EXCEPT !.phase = "ready"]
          IN IF allSubmitted(room2)
             THEN /\ rooms' = MapSet(rooms, code, room3)
                  /\ sent' = <<emitRoomState(room2), emitRoomState(room3)>>
             ELSE /\ rooms' = MapSet(rooms, code, room2)
                  /\ sent' = <<emitRoomState(room2)>>

\* socket.on("room:revealConfirm")
RevealConfirm(s, code) ==
  /\ s \in open
  /\ last' = Op("room:revealConfirm", s, code, NoToken)
  /\ UNCHANGED <<gameMap, socketIndex, sessionIndex, open, issued>>
  /\ IF code \notin DOMAIN rooms
     THEN /\ sent' = <<emitError(s, "Room not found")>>
          /\ UNCHANGED rooms
     ELSE IF ~IsOwnerSocket(s, rooms[code])
     THEN /\ sent' = <<emitError(s, "Only the host can reveal roles")>>
          /\ UNCHANGED rooms
     ELSE IF rooms[code].phase # "ready"
     THEN /\ sent' = <<emitError(s, "Roles are not ready to reveal")>>
          /\ UNCHANGED rooms
     ELSE IF ~allSubmitted(rooms[code])
     THEN /\ sent' = <<emitError(s, "Not everyone has confirmed a role")>>
          /\ UNCHANGED rooms
     ELSE LET room2 == [rooms[code] EXCEPT !.phase = "reveal"]
              reveal(member) == emitReveal(room2, member)
          IN /\ rooms' = MapSet(rooms, code, room2)
             /\ sent' = <<emitRoomState(room2)>> \o SeqMap(reveal, room2.players)

\* socket.on("disconnect"): the connection is gone (and has left every broadcast
\* group); the handler starts the player's grace timer.
Disconnect(s) ==
  /\ s \in open
  /\ open' = open \ {s}
  /\ last' = Op("disconnect", s, NoCode, NoToken)
  /\ UNCHANGED <<gameMap, sessionIndex, issued>>
  /\ IF s \notin DOMAIN socketIndex
     THEN /\ sent' = << >>
          /\ UNCHANGED <<rooms, socketIndex>>
     ELSE LET index == socketIndex[s] IN
          /\ socketIndex' = MapDelete(socketIndex, s)
          /\ IF \/ index.code \notin DOMAIN rooms
                \/ PlayerIndex(rooms[index.code], index.playerId) = 0
             THEN /\ sent' = << >>
                  /\ UNCHANGED rooms
             ELSE LET room == rooms[index.code]
                      i == PlayerIndex(room, index.playerId)
                      room2 == [room EXCEPT !.players[i].connected = FALSE,
                                            !.players[i].disconnectTimer = "pending"]
                  IN /\ rooms' = MapSet(rooms, room.code, room2)
                     /\ sent' = <<emitRoomState(room2)>>

\* The grace timer of player i of room code fires (disconnectGraceMs after the
\* disconnect that set it, unless clearTimeout came first).
TimerFire(code, i) ==
  /\ code \in DOMAIN rooms
  /\ i \in 1..Len(rooms[code].players)
  /\ rooms[code].players[i].disconnectTimer = "pending"
  /\ last' = Op("timer", 0, code, NoToken)
  /\ UNCHANGED <<gameMap, open, issued>>
  /\ IF rooms[code].players[i].connected
     THEN /\ rooms' = [rooms EXCEPT ![code].players[i].disconnectTimer = "fired"]
          /\ sent' = << >>
          /\ UNCHANGED <<socketIndex, sessionIndex>>
     ELSE LET after == graceExpiry(rooms[code], rooms[code].players[i])
          IN /\ rooms' = after.rooms
             /\ sessionIndex' = after.sessionIndex
             /\ socketIndex' = after.socketIndex
             /\ sent' = after.sent

\* The session token a create or join carries: none (the server draws one), or
\* the client's own.  Tokens are interchangeable, so one client token, which a
\* second player may carry again, covers both the shared and the distinct case.
RawSessionInputs == {NoToken, Least(Tokens)}
PlainNames == {<< >>, <<"a">>, <<"b">>}

\* The server with one room code in use: one live room at a time.
OneCode == {CodeBase}
OneCodeInputs == OneCode \cup {NoCode}

Next ==
  \/ Connect
  \/ \E s \in Sockets, t \in SessionInputs : Restore(s, t)
  \/ \E s \in Sockets, name \in PlainNames, t \in RawSessionInputs, code \in OneCode :
       Create(s, name, t, code)
  \/ \E s \in Sockets, code \in OneCodeInputs, name \in PlainNames, t \in RawSessionInputs :
       Join(s, code, name, t)
  \/ \E s \in Sockets, code \in OneCodeInputs, gameId \in GameInputs :
       SelectGame(s, code, gameId)
  \/ \E s \in Sockets, code \in OneCodeInputs : Start(s, code)
  \/ \E s \in Sockets, code \in OneCodeInputs : Reset(s, code)
  \/ \E s \in Sockets : Leave(s)
  \/ \E s \in Sockets, code \in OneCodeInputs, roleId \in RoleInputs : Submit(s, code, roleId)
  \/ \E s \in Sockets, code \in OneCodeInputs : RevealConfirm(s, code)
  \/ \E s \in Sockets : Disconnect(s)
  \/ \E code \in Codes, i \in 1..MaxPlayers : TimerFire(code, i)

Spec == Init /\ [][Next]_vars

\* The server with every room code in use: several live rooms, one name for
\* those who create and one for those who join, one game and one role.
NextRooms ==
  \/ Connect
  \/ \E s \in Sockets, t \in SessionInputs : Restore(s, t)
  \/ \E s \in Sockets, t \in RawSessionInputs, code \in Codes : Create(s, <<"a">>, t, code)
  \/ \E s \in Sockets, code \in CodeInputs, t \in RawSessionInputs : Join(s, code, <<"b">>, t)
  \/ \E s \in Sockets, code \in CodeInputs : SelectGame(s, code, "avalon")
  \/ \E s \in Sockets, code \in CodeInputs : Start(s, code)
  \/ \E s \in Sockets, code \in CodeInputs : Reset(s, code)
  \/ \E s \in Sockets : Leave(s)
  \/ \E s \in Sockets, code \in CodeInputs : Submit(s, code, "merlin")
  \/ \E s \in Sockets, code \in CodeInputs : RevealConfirm(s, code)
  \/ \E s \in Sockets : Disconnect(s)
  \/ \E code \in Codes, i \in 1..MaxPlayers : TimerFire(code, i)

SpecRooms == Init /\ [][NextRooms]_vars

\* The server with one room code, rooms made, joined, started and left, and
\* names that differ in case and in blanks around them, are blank, or are longer
\* than the client's name field.
LongName == [i \in 1..(MaxNameLength + 1) |-> "a"]
NameInputs == {<< >>, <<" ">>, <<"a">>, <<"A">>, <<" ", "a">>, <<"b", " ">>, LongName}

NextNames ==
  \/ Connect
  \/ \E s \in Sockets, name \in NameInputs, code \in OneCode : Create(s, name, NoToken, code)
  \/ \E s \in Sockets, code \in OneCode, name \in NameInputs : Join(s, code, name, NoToken)
  \/ \E s \in Sockets, code \in OneCode : SelectGame(s, code, "avalon")
  \/ \E s \in Sockets, code \in OneCode : Start(s, code)
  \/ \E s \in Sockets : Leave(s)
  \/ \E s \in Sockets : Disconnect(s)
  \/ \E code \in Codes, i \in 1..MaxPlayers : TimerFire(code, i)

SpecNames == Init /\ [][NextNames]_vars

\* ------------------------------------------------- the reveal, on its own
\* getRevealForPlayer reads the catalog and one room.  Here the catalog is any
\* rule list of the shapes below and the room any roster of up to MaxRoster
\* players who all hold a role of the game, as they do once a room is revealed.
RoleIds == {AvalonRoles[i].id : i \in 1..Len(AvalonRoles)}
PartyIds == {AvalonRoles[i].partyId : i \in 1..Len(AvalonRoles)} \ {Null}

\* A rule: scope absent, "all" or "self"; any visibleRoleIds and visiblePartyIds;
\* includeSelf true, false or absent.
RevealRules ==
  {Rule(r, scope, roleIds, partyIds, includeSelf) :
     r \in RoleIds, scope \in {Null, "all", "self"}, roleIds \in SUBSET RoleIds,
     partyIds \in SUBSET PartyIds, includeSelf \in {"true", "false", Null}}

\* No rule at all, the running catalog's rules, one rule, or one rule followed by a second for the same role
\* (find returns the first).
RevealRuleLists ==
  {<< >>, AvalonRules} \cup {<<rule>> : rule \in RevealRules}
          \cup {<<rule, Rule(rule.roleId, "all", {}, {}, Null)>> : rule \in RevealRules}

RosterName(i) == [k \in 1..i |-> "a"]

RosterPlayer(i, roleId) ==
  [createPlayer(i, RosterName(i), i, i) EXCEPT !.roleId = roleId, !.hasSubmittedRole = TRUE]

Rosters ==
  UNION {{[i \in 1..n |-> RosterPlayer(i, roles[i])] : roles \in [1..n -> RoleIds]} :
         n \in 1..MaxRoster}

InitReveal ==
  /\ gameMap \in {[g \in {"avalon"} |-> Game(rules)] : rules \in RevealRuleLists}
  /\ \E roster \in Rosters :
       /\ rooms = [c \in {CodeBase} |->
                     [code |-> c, ownerId |-> 1, gameId |-> "avalon", phase |-> "reveal",
                      players |-> roster]]
       /\ socketIndex = [s \in 1..Len(roster) |->
                           [code |-> CodeBase, playerId |-> s, sessionId |-> s]]
       /\ sessionIndex = [s \in 1..Len(roster) |-> [code |-> CodeBase, playerId |-> s]]
       /\ open = 1..Len(roster)
       /\ issued = [players |-> Len(roster), sockets |-> Len(roster)]
  /\ sent = << >>
  /\ last = Op("init", 0, NoCode, NoToken)

\* One pass of the loop of room:revealConfirm: the reveal of member i is computed
\* and sent to the member's socket.
RevealMember(code, i) ==
  /\ code \in DOMAIN rooms
  /\ i \in 1..Len(rooms[code].players)
  /\ sent' = <<emitReveal(rooms[code], rooms[code].players[i])>>
  /\ last' = Op("room:reveal", rooms[code].players[i].socketId, code, NoToken)
  /\ UNCHANGED <<gameMap, rooms, socketIndex, sessionIndex, open, issued>>

NextReveal == \E code \in Codes, i \in 1..MaxRoster : RevealMember(code, i)

SpecReveal == InitReveal /\ [][NextReveal]_vars

\* A full room and the departures from it: MaxRoster players have joined room
\* CodeBase one after the other, each on a connection and with a token of their
\* own, and the room is in any phase, with the role data that phase has: none in
\* the lobby, some in roles, a role for everybody in ready and in reveal.
MemberRoles == {Null, "merlin"}

Member(i, roleId) ==
  [createPlayer(i, RosterName(i), i, i) EXCEPT !.roleId = roleId,
                                               !.hasSubmittedRole = roleId # Null]

FullRooms ==
  {[code |-> CodeBase, ownerId |-> 1, gameId |-> gameId, phase |-> phase,
    players |-> [i \in 1..MaxRoster |-> Member(i, roles[i])]] :
     gameId \in {Null, "avalon"}, phase \in SeqRange(Phases),
     roles \in [1..MaxRoster -> MemberRoles]}

InPhase(room) ==
  LET submitted == {i \in 1..Len(room.players) : room.players[i].hasSubmittedRole}
  IN CASE room.phase = "lobby" -> submitted = {}
       [] room.phase = "roles" -> room.gameId # Null /\ submitted # 1..Len(room.players)
       [] OTHER -> room.gameId # Null /\ submitted = 1..Len(room.players)

InitRoster ==
  /\ gameMap \in loadGames
  /\ \E room \in FullRooms :
       /\ InPhase(room)
       /\ rooms = [c \in {CodeBase} |-> room]
  /\ socketIndex = [s \in 1..MaxRoster |->
                      [code |-> CodeBase, playerId |-> s, sessionId |-> s]]
  /\ sessionIndex = [s \in 1..MaxRoster |-> [code |-> CodeBase, playerId |-> s]]
  /\ open = 1..MaxRoster
  /\ issued = [players |-> MaxRoster, sockets |-> MaxRoster]
  /\ sent = << >>
  /\ last = Op("init", 0, NoCode, NoToken)

\* The token restored in the full room: the one of the first member, the owner
\* (the members are alike but for their place in the join order).
RosterTokens == {Least(Tokens)}

GraceExpiry == \E code \in Codes, i \in 1..MaxRoster : TimerFire(code, i)

NextRoster ==
  \/ \E s \in 1..MaxRoster, t \in RosterTokens : Restore(s, t)
  \/ \E s \in 1..MaxRoster : Leave(s)
  \/ \E s \in 1..MaxRoster : Disconnect(s)
  \/ GraceExpiry

SpecRoster == InitRoster /\ [][NextRoster]_vars

\* setTimeout(callback, disconnectGraceMs): a timer that is not cleared fires.
SpecRosterFair == SpecRoster /\ WF_vars(GraceExpiry)

\* ================================================================ properties
PhaseRank(phase) == CHOOSE i \in 1..Len(Phases) : Phases[i] = phase

\* The rooms live before and after a step (one step never deletes a room and
\* creates another under the same code).
Surviving == (DOMAIN rooms) \cap (DOMAIN rooms')

\* The last step sent the event to somebody.
Emitted(event) == \E k \in 1..Len(sent) : sent[k].event = event

\* C1: a room's phase changes only one step forward along lobby, roles, ready,
\* reveal (by room:start, by the submit that completes the roster, by
\* room:revealConfirm), or back to lobby by room:reset; no other request, and in
\* particular no room:selectGame or room:start, lowers it.
C1_PhaseOnlyAdvancesOrResets ==
  [][\A c \in Surviving :
       rooms'[c].phase # rooms[c].phase =>
         \/ last'.op = "room:reset" /\ rooms'[c].phase = "lobby"
         \/ /\ PhaseRank(rooms'[c].phase) = PhaseRank(rooms[c].phase) + 1
            /\ last'.op = CASE rooms[c].phase = "lobby" -> "room:start"
                            [] rooms[c].phase = "roles" -> "role:submit"
                            [] OTHER -> "room:revealConfirm"]_vars

\* A connection that is open and bound, in the socket index, to player p of room c.
LiveBound(c, p) ==
  \E s \in open : /\ s \in DOMAIN socketIndex
                  /\ socketIndex[s].code = c
                  /\ socketIndex[s].playerId = p

\* C2: a grace timer that fires never removes a player who has a live bound
\* connection (as a player restored onto a new connection has, whenever the old
\* connection's disconnect is handled).
C2_TimerSparesLivePlayer ==
  [][last'.op = "timer" =>
       \A c \in DOMAIN rooms : \A i \in 1..Len(rooms[c].players) :
         LiveBound(c, rooms[c].players[i].id) =>
           /\ c \in DOMAIN rooms'
           /\ PlayerIndex(rooms'[c], rooms[c].players[i].id) # 0]_vars

\* C3: the owner of every live room is a player of that room.
C3_OwnerIsMember ==
  \A c \in DOMAIN rooms : \E i \in 1..Len(rooms[c].players) :
    rooms[c].players[i].id = rooms[c].ownerId

\* C3 witness: of the two players of a room the creator and owner (player 1) has
\* just been removed by grace expiry, and the room lives on owned by player 2.
C3_Witness ==
  /\ last.op = "timer"
  /\ issued.players = 2
  /\ Emitted("room:state")
  /\ \E c \in DOMAIN rooms :
       /\ rooms[c].ownerId = 2
       /\ Len(rooms[c].players) = 1
       /\ PlayerIndex(rooms[c], 1) = 0

\* C4: no live room is empty.
C4_NoEmptyRoom == \A c \in DOMAIN rooms : Len(rooms[c].players) > 0

\* C4 witness: a grace expiry has just removed the last player of the only room,
\* and the code resolves to nothing.
C4_Witness ==
  /\ last.op = "timer"
  /\ issued.players > 0
  /\ last.code \notin DOMAIN rooms

\* C5: a room:create that makes a room gives it a code no live room holds, and
\* leaves every room that was live as it was.
C5_CreateTakesFreeCode ==
  [][(last'.op = "room:create" /\ rooms' # rooms) =>
       /\ \E c \in (DOMAIN rooms') \ (DOMAIN rooms) : DOMAIN rooms' = (DOMAIN rooms) \cup {c}
       /\ \A c \in DOMAIN rooms : rooms'[c] = rooms[c]]_vars

\* C5 witness: a create has just succeeded while another room was live.
C5_Witness ==
  /\ last.op = "room:create"
  /\ Emitted("room:joined")
  /\ Cardinality(DOMAIN rooms) = 2

\* The last step was a role:submit that was accepted.
SubmitAccepted == last.op = "role:submit" /\ Emitted("room:state")

Submitted(room) == {i \in 1..Len(room.players) : room.players[i].hasSubmittedRole}

\* C6: an accepted role:submit in a room of N players (connected or not) finds the
\* room in phase roles and leaves it there while fewer than N players have
\* submitted, and moves it to ready in the same step when it makes the N-th
\* player submitted; the submitter is counted once however often they submit.
C6_AutoAdvanceAtLastSubmit ==
  [][SubmitAccepted' =>
       LET c == last'.code
           N == Len(rooms[c].players)
           me == PlayerIndex(rooms[c], socketIndex[last'.socket].playerId)
       IN /\ rooms[c].phase = "roles"
          /\ Len(rooms'[c].players) = N
          /\ Submitted(rooms'[c]) = Submitted(rooms[c]) \cup {me}
          /\ Cardinality(Submitted(rooms'[c])) < N => rooms'[c].phase = "roles"
          /\ Cardinality(Submitted(rooms'[c])) = N => rooms'[c].phase = "ready"]_vars

\* C6 witness: in a room of two the second player has just submitted, the first
\* being disconnected, and the room is ready.
C6_Witness ==
  /\ SubmitAccepted
  /\ LET room == rooms[last.code]
     IN /\ Len(room.players) = 2
        /\ room.phase = "ready"
        /\ \E i \in 1..2 : ~room.players[i].connected

\* A room with every role id blanked, the submitted flags kept.
WithoutRoles(room) ==
  [room EXCEPT !.players = [i \in 1..Len(room.players) |->
                              [room.players[i] EXCEPT !.roleId = Null]]]

\* C7: a room:state payload has the fields code, ownerId, gameId, phase and
\* players, each player entry the fields id, name and hasSubmittedRole, and the
\* payload that shows the room's current phase is the one computed from the room
\* with every role id blanked: it does not depend on the roles submitted.
C7_RoomStateHidesRoles ==
  \A k \in 1..Len(sent) :
    sent[k].event = "room:state" =>
      LET payload == sent[k].payload
      IN /\ DOMAIN payload = {"code", "ownerId", "gameId", "phase", "players"}
         /\ \A i \in 1..Len(payload.players) :
              DOMAIN payload.players[i] = {"id", "name", "hasSubmittedRole"}
         /\ (payload.code \in DOMAIN rooms /\ rooms[payload.code].phase = payload.phase)
              => payload = serializeRoom(WithoutRoles(rooms[payload.code]))

\* C7 witness: a room:state goes out for a room of two players who hold different
\* roles.
C7_Witness ==
  \E k \in 1..Len(sent) :
    /\ sent[k].event = "room:state"
    /\ sent[k].payload.code \in DOMAIN rooms
    /\ LET room == rooms[sent[k].payload.code]
       IN /\ Len(room.players) = 2
          /\ room.players[1].roleId # Null
          /\ room.players[2].roleId # Null
          /\ room.players[1].roleId # room.players[2].roleId

\* ------------------------------------------------------- the reveal payload
\* The last step computed the reveal of one member: the acting player.
RevealStep == last.op = "room:reveal"

Acting ==
  LET room == rooms[last.code]
  IN room.players[CHOOSE i \in 1..Len(room.players) : room.players[i].socketId = last.socket]

Revealed == sent[1].payload.visiblePlayers
RevealedIds == {Revealed[k].playerId : k \in 1..Len(Revealed)}

\* The rules of the room's game for the acting player's role, in file order.
ActingRules ==
  LET rules == gameMap[rooms[last.code].gameId].revealRules
  IN SelectSeq(rules, LAMBDA rule : rule.roleId = Acting.roleId)

CustomRule == ActingRules # << >> /\ ActingRules[1].scope \notin {"all", "self"}

\* The parties of a role id in the room's game (none, or one).
PartiesOf(roleId) ==
  LET roles == gameMap[rooms[last.code].gameId].roles
  IN {roles[i].partyId : i \in {j \in 1..Len(roles) : roles[j].id = roleId}} \ {Null}

\* X is named by the clauses of the custom rule.
Named(rule, X) ==
  \/ rule.includeSelf = "true" /\ X.id = Acting.id
  \/ X.roleId \in rule.visibleRoleIds
  \/ PartiesOf(X.roleId) \cap rule.visiblePartyIds # {}

Roster == rooms[last.code].players

\* C8: under a custom rule the reveal of the acting player A holds the entry of
\* roster member X, once and with X's name and role, if and only if (includeSelf
\* is true and X is A) or X's role id is in visibleRoleIds or the party of X's
\* role is in visiblePartyIds; with merlin seeing the role assassin and percival
\* the party evil, the reveals of merlin and of percival over the roster merlin,
\* assassin, percival are both exactly the assassin.
C8_CustomRuleVisibility ==
  (RevealStep /\ CustomRule) =>
    /\ RevealedIds = {Roster[i].id : i \in {j \in 1..Len(Roster) : Named(ActingRules[1], Roster[j])}}
    /\ Len(Revealed) = Cardinality(RevealedIds)
    /\ \A k \in 1..Len(Revealed) : \E i \in 1..Len(Roster) :
         Revealed[k] = [playerId |-> Roster[i].id, name |-> Roster[i].name,
                        roleId |-> Roster[i].roleId]
    /\ ( /\ gameMap[rooms[last.code].gameId].revealRules = AvalonRules
         /\ [i \in 1..Len(Roster) |-> Roster[i].roleId] = <<"merlin", "assassin", "percival">> )
       => Revealed = <<[playerId |-> 2, name |-> Roster[2].name, roleId |-> "assassin"]>>

\* C8 witness: percival, whose rule names the party evil and no role, is shown
\* exactly the assassin of the roster merlin, assassin, percival.
C8_Witness ==
  /\ RevealStep
  /\ gameMap[rooms[last.code].gameId].revealRules = AvalonRules
  /\ [i \in 1..Len(Roster) |-> Roster[i].roleId] = <<"merlin", "assassin", "percival">>
  /\ Acting.roleId = "percival"
  /\ RevealedIds = {2}

\* C9 as claimed: under a custom rule whose includeSelf is absent or false the
\* acting player is not in their own reveal, whatever the rule lists.
C9_SelfOnlyByIncludeSelf ==
  (RevealStep /\ CustomRule /\ ActingRules[1].includeSelf # "true") =>
    Acting.id \notin RevealedIds

\* C9 amended: under a custom rule the acting player is in their own reveal
\* exactly when includeSelf is true, or their own role id is in visibleRoleIds,
\* or the party of their own role is in visiblePartyIds.
C9_SelfOnlyByClause ==
  (RevealStep /\ CustomRule) =>
    ( Acting.id \in RevealedIds
        <=> \/ ActingRules[1].includeSelf = "true"
            \/ Acting.roleId \in ActingRules[1].visibleRoleIds
            \/ PartiesOf(Acting.roleId) \cap ActingRules[1].visiblePartyIds # {} )

\* C9 witness: a custom rule without includeSelf lists another member's role and
\* not the acting player's role or party; the reveal shows others and not the
\* acting player.
C9_Witness ==
  /\ RevealStep
  /\ CustomRule
  /\ ActingRules[1].includeSelf = Null
  /\ ActingRules[1].visibleRoleIds # {}
  /\ Acting.roleId \notin ActingRules[1].visibleRoleIds
  /\ PartiesOf(Acting.roleId) \cap ActingRules[1].visiblePartyIds = {}
  /\ RevealedIds # {}
  /\ Acting.id \notin RevealedIds

\* C10: when the game has no rule for the acting player's role, or the rule it
\* finds has scope self, visiblePlayers is the one-element list of the acting
\* player with their own role id.
C10_DefaultAndSelfScope ==
  (RevealStep /\ (ActingRules = << >> \/ ActingRules[1].scope = "self")) =>
    Revealed = <<[playerId |-> Acting.id, name |-> Acting.name, roleId |-> Acting.roleId]>>

\* C10 witness: the assassin, for whose role the running catalog has no rule, is
\* shown only themself in a roster of three.
C10_Witness ==
  /\ RevealStep
  /\ gameMap[rooms[last.code].gameId].revealRules = AvalonRules
  /\ Len(Roster) = 3
  /\ Acting.roleId = "assassin"
  /\ ActingRules = << >>
  /\ RevealedIds = {Acting.id}

\* C11: when the rule found for the acting player has scope all, visiblePlayers
\* lists every member of the room, the acting player included, in the room's
\* order, each with their own id, name and role id, and nothing else.
C11_ScopeAllListsEveryone ==
  (RevealStep /\ ActingRules # << >> /\ ActingRules[1].scope = "all") =>
    Revealed = [i \in 1..Len(Roster) |->
                  [playerId |-> Roster[i].id, name |-> Roster[i].name,
                   roleId |-> Roster[i].roleId]]

\* C11 witness: a scope-all rule, listing no role or party, shows the acting
\* player a roster of three members with three different roles.
C11_Witness ==
  /\ RevealStep
  /\ ActingRules # << >>
  /\ ActingRules[1].scope = "all"
  /\ ActingRules[1].visibleRoleIds = {}
  /\ ActingRules[1].visiblePartyIds = {}
  /\ Len(Roster) = 3
  /\ Cardinality({Roster[i].roleId : i \in 1..3}) = 3
  /\ RevealedIds = {1, 2, 3}

\* The role data of every room: per room, the members' ids, role ids and
\* submitted flags in order.
RoleData ==
  [c \in DOMAIN rooms |->
     [i \in 1..Len(rooms[c].players) |->
        [id |-> rooms[c].players[i].id, roleId |-> rooms[c].players[i].roleId,
         hasSubmittedRole |-> rooms[c].players[i].hasSubmittedRole]]]

\* C12: a session:restore carrying the token of a member whose connection has
\* gone and whose grace timer is pending leaves that member in the same room
\* with the same id, role id and submitted flag, connected and without a timer;
\* and no disconnect and no session:restore changes any player's role data.
C12_RestoreKeepsPlayer ==
  [][ /\ \A c \in DOMAIN rooms : \A i \in 1..Len(rooms[c].players) :
           LET p == rooms[c].players[i]
           IN ( /\ ~p.connected
                /\ p.disconnectTimer = "pending"
                /\ last'.op = "session:restore"
                /\ last'.sessionId = p.sessionId )
              => /\ c \in DOMAIN rooms'
                 /\ Len(rooms'[c].players) = Len(rooms[c].players)
                 /\ rooms'[c].players[i].id = p.id
                 /\ rooms'[c].players[i].roleId = p.roleId
                 /\ rooms'[c].players[i].hasSubmittedRole = p.hasSubmittedRole
                 /\ rooms'[c].players[i].connected
                 /\ rooms'[c].players[i].disconnectTimer = Null
      /\ last'.op \in {"disconnect", "session:restore"} => RoleData' = RoleData ]_vars

\* ------------------------------------------------- the reveal of a member
\* The reveal payload for member p of a room as the rules define it: the first
\* rule for p's role decides; scope all shows everybody, scope self or no rule
\* shows p alone, any other rule those it names.
RulesFor(room, p) ==
  SelectSeq(gameMap[room.gameId].revealRules, LAMBDA rule : rule.roleId = p.roleId)

PartyOf(room, roleId) ==
  LET roles == gameMap[room.gameId].roles
  IN {roles[i].partyId : i \in {j \in 1..Len(roles) : roles[j].id = roleId}} \ {Null}

Shown(room, p, X) ==
  LET rules == RulesFor(room, p)
  IN IF rules = << >> \/ rules[1].scope = "self" THEN X.id = p.id
     ELSE IF rules[1].scope = "all" THEN TRUE
     ELSE \/ rules[1].includeSelf = "true" /\ X.id = p.id
          \/ X.roleId \in rules[1].visibleRoleIds
          \/ PartyOf(room, X.roleId) \cap rules[1].visiblePartyIds # {}

ExpectedReveal(room, p) ==
  LET shown == SelectSeq(room.players, LAMBDA X : Shown(room, p, X))
  IN [gameId |-> room.gameId,
      visiblePlayers |-> [k \in 1..Len(shown) |->
                            [playerId |-> shown[k].id, name |-> shown[k].name,
                             roleId |-> shown[k].roleId]]]

\* The room:reveal messages of the last step, in order.
Reveals == SelectSeq(sent, LAMBDA m : m.event = "room:reveal")

\* The last step was a session:restore that bound a player.
RestoreBound == last.op = "session:restore" /\ Emitted("room:joined")

RestoredRoom == rooms[sent[1].payload.code]
RestoredPlayer ==
  RestoredRoom.players[PlayerIndex(RestoredRoom, sent[1].payload.playerId)]

\* The last step was a room:revealConfirm that was accepted.
RevealAccepted == last.op = "room:revealConfirm" /\ ~Emitted("room:error")

\* C13: a session:restore that binds a player of a room in phase reveal sends the
\* restoring connection one room:reveal, and its payload is the reveal of that
\* player as the rules define it from the room's game, members and roles -- the
\* same function of them that the payloads of an accepted room:revealConfirm
\* are, so with these unchanged it is the payload sent at revealConfirm; a
\* restore in any other phase sends no room:reveal.
C13_RestoreRedeliversReveal ==
  /\ RestoreBound =>
       IF RestoredRoom.phase = "reveal"
       THEN Reveals = <<Msg(ToSocket(last.socket), "room:reveal",
                            ExpectedReveal(RestoredRoom, RestoredPlayer))>>
       ELSE Reveals = << >>
  /\ RevealAccepted =>
       LET room == rooms[last.code]
       IN /\ Len(Reveals) = Len(room.players)
          /\ \A i \in 1..Len(room.players) :
               Reveals[i].payload = ExpectedReveal(room, room.players[i])

\* C13 witness: in a room of two in phase reveal, merlin restores and is sent
\* the assassin.
C13_Witness ==
  /\ RestoreBound
  /\ RestoredRoom.phase = "reveal"
  /\ Len(RestoredRoom.players) = 2
  /\ RestoredPlayer.roleId = "merlin"
  /\ Len(Reveals) = 1
  /\ Len(Reveals[1].payload.visiblePlayers) = 1
  /\ Reveals[1].payload.visiblePlayers[1].roleId = "assassin"

\* ------------------------------------------------------------------ names
\* A name without the blanks around it, and in lower case.
Stripped(name) ==
  LET inked == {i \in 1..Len(name) : name[i] # " "}
  IN IF inked = {} THEN << >>
     ELSE SubSeq(name, Least(inked), CHOOSE i \in inked : \A j \in inked : j <= i)

Folded(name) ==
  [i \in 1..Len(name) |-> IF name[i] = "A" THEN "a" ELSE IF name[i] = "B" THEN "b" ELSE name[i]]

SameName(a, b) == Folded(Stripped(a)) = Folded(Stripped(b))

\* C14: a room:join to a live room with a name some member holds, blanks around
\* it and case aside, is answered with the name-taken error alone and changes no
\* room; one in phase lobby with a name no member so holds adds the player under
\* the name given and is answered room:joined; and no room ever has two members
\* whose names are equal, blanks around them and case aside.
C14_NameTaken ==
  [][ /\ (last'.op = "room:join" /\ last'.code \in DOMAIN rooms) =>
           LET s == last'.socket
               code == last'.code
           IN \A name \in NameInputs \ {<< >>}, t \in RawSessionInputs :
                Join(s, code, name, t) =>
                  IF \E i \in 1..Len(rooms[code].players) :
                       SameName(rooms[code].players[i].name, name)
                  THEN /\ sent' = <<Msg(ToSocket(s), "room:error",
                                        [message |-> "That name is already taken in this room"])>>
                       /\ rooms' = rooms
                  ELSE rooms[code].phase = "lobby" =>
                         /\ Len(rooms'[code].players) = Len(rooms[code].players) + 1
                         /\ rooms'[code].players[Len(rooms'[code].players)].name = name
                         /\ sent'[1].event = "room:joined"
      /\ \A c \in DOMAIN rooms' : \A i, j \in 1..Len(rooms'[c].players) :
           i # j => ~SameName(rooms'[c].players[i].name, rooms'[c].players[j].name) ]_vars

\* C14 witness: a join has just been refused as name-taken by a room whose only
\* member is named " a".
C14_Witness ==
  /\ last.op = "room:join"
  /\ sent = <<Msg(ToSocket(last.socket), "room:error",
                  [message |-> "That name is already taken in this room"])>>
  /\ last.code \in DOMAIN rooms
  /\ Len(rooms[last.code].players) = 1
  /\ rooms[last.code].players[1].name = <<" ", "a">>

\* C15: a room:leave that directly follows a room:leave on the same connection
\* changes no room, player, owner, session-token entry or connection entry, and
\* sends no error and no room state.
C15_SecondLeaveIsNoOp ==
  [][ ( /\ last.op = "room:leave"
        /\ last'.op = "room:leave"
        /\ last'.socket = last.socket )
      => /\ rooms' = rooms
         /\ sessionIndex' = sessionIndex
         /\ socketIndex' = socketIndex
         /\ \A k \in 1..Len(sent') : sent'[k].event \notin {"room:error", "room:state"} ]_vars

\* C15 witness: the one connection there ever was made a room, left it (the
\* room is gone, the connection is still open and bound to nothing) and has just
\* sent room:leave again, which was answered with nothing.
C15_Witness ==
  /\ last.op = "room:leave"
  /\ sent = << >>
  /\ issued = [players |-> 1, sockets |-> 1]
  /\ open = {1}
  /\ rooms = EmptyMap
  /\ socketIndex = EmptyMap
  /\ sessionIndex = EmptyMap

\* The ids of the members of a room.
MemberIds(room) == {room.players[i].id : i \in 1..Len(room.players)}

\* The last step answered the requesting connection with this error alone.
Refused(message) == sent = <<Msg(ToSocket(last.socket), "room:error", [message |-> message])>>

\* C16 as claimed: a room:join to a live room whose phase is not lobby is
\* answered with the game-already-started error and adds no player.
C16_JoinAfterStartFailsStarted ==
  [][ ( /\ last'.op = "room:join"
        /\ last'.code \in DOMAIN rooms
        /\ rooms[last'.code].phase # "lobby" )
      => /\ Refused("Game already started")'
         /\ rooms' = rooms ]_vars

\* C16 amended: a room:join to a live room whose phase is not lobby changes no
\* room and is answered with one error to the requester: the missing-field error
\* when it carries no name, the name-taken error when a member holds the name,
\* blanks around it and case aside, and the game-already-started error
\* otherwise; and a step gives a live room a new member only in phase lobby.
C16_JoinAfterStartAddsNobody ==
  [][ /\ ( /\ last'.op = "room:join"
           /\ last'.code \in DOMAIN rooms
           /\ rooms[last'.code].phase # "lobby" )
         => /\ rooms' = rooms
            /\ \A name \in PlainNames, t \in RawSessionInputs :
                 Join(last'.socket, last'.code, name, t) =>
                   IF name = << >> THEN Refused("Code and name are required")'
                   ELSE IF \E i \in 1..Len(rooms[last'.code].players) :
                             SameName(rooms[last'.code].players[i].name, name)
                   THEN Refused("That name is already taken in this room")'
                   ELSE Refused("Game already started")'
      /\ \A c \in Surviving :
           ~(MemberIds(rooms'[c]) \subseteq MemberIds(rooms[c])) => rooms[c].phase = "lobby" ]_vars

\* C16 witness: a join has just been refused as game-already-started by a room
\* of one member in phase roles.
C16_Witness ==
  /\ last.op = "room:join"
  /\ Refused("Game already started")
  /\ last.code \in DOMAIN rooms
  /\ rooms[last.code].phase = "roles"
  /\ Len(rooms[last.code].players) = 1

\* A display name of 1 to MaxNameLength characters that is not blank.
ValidName(name) == Len(name) \in 1..MaxNameLength /\ Stripped(name) # << >>

\* A name whose trimmed form is empty or longer than MaxNameLength.
InvalidName(name) == Stripped(name) = << >> \/ Len(Stripped(name)) > MaxNameLength

\* C17: a room:create whose name is missing, blank, or longer than 10 characters
\* after trimming is answered with one error to the requester and makes no
\* room, player, session-token or connection entry; and every member of every
\* room has a name of 1 to 10 characters that is not blank.
C17_CreateValidatesName ==
  [][ /\ last'.op = "room:create" =>
           \A name \in NameInputs, t \in RawSessionInputs, code \in Codes :
             (InvalidName(name) /\ Create(last'.socket, name, t, code)) =>
               /\ rooms' = rooms
               /\ socketIndex' = socketIndex
               /\ sessionIndex' = sessionIndex
               /\ Len(sent') = 1
               /\ sent'[1].event = "room:error"
               /\ sent'[1].to = ToSocket(last'.socket)
      /\ \A c \in DOMAIN rooms' : \A i \in 1..Len(rooms'[c].players) :
           ValidName(rooms'[c].players[i].name) ]_vars

\* The owner-only requests and the error each answers a requester who is not the
\* owner.
HostOnly ==
  [op \in {"room:selectGame", "room:start", "room:reset", "room:revealConfirm"} |->
     CASE op = "room:selectGame" -> "Only the host can select the game"
       [] op = "room:start" -> "Only the host can start the game"
       [] op = "room:reset" -> "Only the host can reset the game"
       [] op = "room:revealConfirm" -> "Only the host can reveal roles"]

\* The connection index binds connection s to the owner of the room.
BoundToOwner(s, room) ==
  \E i \in 1..Len(room.players) :
    /\ room.players[i].id = room.ownerId
    /\ s \in DOMAIN socketIndex
    /\ socketIndex[s].playerId = room.players[i].id

\* C18: a selectGame, start, reset or revealConfirm for a live room from a
\* connection that the connection index does not bind to the room's owner is
\* answered with the host-only error, sent to the requester alone, and changes
\* no room and no index entry.
C18_OwnerOnly ==
  [][ ( /\ last'.op \in DOMAIN HostOnly
        /\ last'.code \in DOMAIN rooms
        /\ ~BoundToOwner(last'.socket, rooms[last'.code]) )
      => /\ sent' = <<Msg(ToSocket(last'.socket), "room:error",
                          [message |-> HostOnly[last'.op]])>>
         /\ rooms' = rooms
         /\ socketIndex' = socketIndex
         /\ sessionIndex' = sessionIndex ]_vars

\* C18 witness: two rooms are live and a connection bound to a player of one has
\* just been refused the start of the other.
C18_Witness ==
  /\ last.op = "room:start"
  /\ Refused("Only the host can start the game")
  /\ last.code \in DOMAIN rooms
  /\ last.socket \in DOMAIN socketIndex
  /\ socketIndex[last.socket].code # last.code
  /\ socketIndex[last.socket].code \in DOMAIN rooms

\* C19: a step that sends a room:error sends nothing else, sends it to the
\* requesting connection, and changes no room (members, phase, game, roles,
\* owner), no session-token entry, no connection entry and no connection.
C19_ErrorsChangeNothing ==
  [][ Emitted("room:error")' =>
        /\ Len(sent') = 1
        /\ sent'[1].to = ToSocket(last'.socket)
        /\ last'.socket \in open
        /\ rooms' = rooms
        /\ sessionIndex' = sessionIndex
        /\ socketIndex' = socketIndex
        /\ open' = open ]_vars

\* C19 witness: in a room of two in phase roles, one of whom has submitted, a
\* role:submit naming a role the game does not have has just been refused.
C19_Witness ==
  /\ last.op = "role:submit"
  /\ Refused("Unknown role")
  /\ last.code \in DOMAIN rooms
  /\ rooms[last.code].phase = "roles"
  /\ Len(rooms[last.code].players) = 2
  /\ Cardinality(Submitted(rooms[last.code])) = 1

\* C20: a room:revealConfirm for a live room from its owner's connection is
\* accepted exactly when the room is in phase ready and every member has
\* submitted; accepted, it changes the room's phase to reveal and nothing else,
\* and sends one room:reveal per member, in the room's order, to that member's
\* connection with the reveal of that member; refused, and always so in another
\* phase, it changes no room and sends an error and no room:reveal.  No
\* room:revealConfirm from another connection is accepted.
C20_RevealConfirm ==
  [][ (last'.op = "room:revealConfirm" /\ last'.code \in DOMAIN rooms) =>
        LET room == rooms[last'.code]
            ready == /\ room.phase = "ready"
                     /\ \A i \in 1..Len(room.players) : room.players[i].hasSubmittedRole
        IN IF BoundToOwner(last'.socket, room) /\ ready
           THEN /\ rooms' = [rooms EXCEPT ![room.code].phase = "reveal"]
                /\ ~Emitted("room:error")'
                /\ Reveals' = [i \in 1..Len(room.players) |->
                                 Msg(ToSocket(room.players[i].socketId), "room:reveal",
                                     ExpectedReveal(room, room.players[i]))]
           ELSE /\ rooms' = rooms
                /\ Emitted("room:error")'
                /\ Reveals' = << >> ]_vars

\* C20 witness: the owner's revealConfirm has just been accepted in a room of
\* two, and merlin and the assassin were each sent their reveal on their own
\* connection.
C20_Witness ==
  /\ RevealAccepted
  /\ rooms[last.code].phase = "reveal"
  /\ Len(rooms[last.code].players) = 2
  /\ Len(Reveals) = 2
  /\ Reveals[1].to # Reveals[2].to
  /\ {rooms[last.code].players[i].roleId : i \in 1..2} = {"merlin", "assassin"}

\* ------------------------------------------------------------------ reveal steps
\* C21: a room:reveal is sent only in the step of a room:revealConfirm that
\* moves its room from ready to reveal, or in a session:restore that binds a
\* player of a room whose phase is reveal; in both the room the reveal is for is
\* in phase reveal when the step ends.
C21_RevealOnlyInPhaseReveal ==
  [][ (\E k \in 1..Len(sent') : sent'[k].event = "room:reveal") =>
        \/ /\ last'.op = "room:revealConfirm"
           /\ last'.code \in Surviving
           /\ rooms[last'.code].phase = "ready"
           /\ rooms'[last'.code].phase = "reveal"
        \/ /\ last'.op = "session:restore"
           /\ sent'[1].event = "room:joined"
           /\ sent'[1].payload.code \in Surviving
           /\ rooms[sent'[1].payload.code].phase = "reveal"
           /\ rooms'[sent'[1].payload.code].phase = "reveal" ]_vars

\* C21 witness: the assassin of a room of two in phase reveal restores the
\* session and is sent a reveal.
C21_Witness ==
  /\ RestoreBound
  /\ RestoredRoom.phase = "reveal"
  /\ Len(RestoredRoom.players) = 2
  /\ RestoredPlayer.roleId = "assassin"
  /\ Len(Reveals) = 1

\* ------------------------------------------------------------------ the client
\* The page of a player (home-client.tsx) in front of the server: the requests
\* below are the only ones it sends.  It keeps the room of the last room:state
\* it was sent, so it names the room its connection is bound to.
HasRoom(s, code) ==
  /\ s \in DOMAIN socketIndex
  /\ socketIndex[s].code = code
  /\ code \in DOMAIN rooms

\* The names the create and join forms let through: trimmed, not empty, at most
\* MaxNameLength characters.
FormNames == {name \in PlainNames : name # << >> /\ Len(name) <= MaxNameLength}

\* createRoom: room:create {name, sessionId}
createRoom(s, name, sessionId, code) ==
  /\ name \in FormNames
  /\ Create(s, name, sessionId, code)

\* joinRoom: room:join {name, code, sessionId}
joinRoom(s, code, name, sessionId) ==
  /\ name \in FormNames
  /\ code # NoCode
  /\ Join(s, code, name, sessionId)

\* startGame, behind the button 'Start setup': with a room and a game picked in
\* the select (selectedGameId, a game of the catalog), room:start {code, gameId}.
\* The server's handler reads the code alone.
startGame(s, code, gameId) ==
  /\ HasRoom(s, code)
  /\ gameId \in DOMAIN gameMap
  /\ Start(s, code)

\* submitRole: role:submit {code, roleId}
submitRole(s, code, roleId) ==
  /\ HasRoom(s, code)
  /\ Submit(s, code, roleId)

\* confirmReveal: room:revealConfirm {code}
confirmReveal(s, code) ==
  /\ HasRoom(s, code)
  /\ RevealConfirm(s, code)

\* resetGame: room:reset {code}
resetGame(s, code) ==
  /\ HasRoom(s, code)
  /\ Reset(s, code)

\* leaveRoom: room:leave
leaveRoom(s) == Leave(s)

\* The pages and the server together: every request is one a page sends.  No
\* page sends room:selectGame.
NextClient ==
  \/ Connect
  \/ \E s \in Sockets, t \in SessionInputs : Restore(s, t)
  \/ \E s \in Sockets, name \in PlainNames, t \in RawSessionInputs, code \in OneCode :
       createRoom(s, name, t, code)
  \/ \E s \in Sockets, code \in OneCode, name \in PlainNames, t \in RawSessionInputs :
       joinRoom(s, code, name, t)
  \/ \E s \in Sockets, code \in OneCode, gameId \in GameInputs : startGame(s, code, gameId)
  \/ \E s \in Sockets, code \in OneCode, roleId \in RoleInputs : submitRole(s, code, roleId)
  \/ \E s \in Sockets, code \in OneCode : confirmReveal(s, code)
  \/ \E s \in Sockets, code \in OneCode : resetGame(s, code)
  \/ \E s \in Sockets : leaveRoom(s)
  \/ \E s \in Sockets : Disconnect(s)
  \/ \E code \in Codes, i \in 1..MaxPlayers : TimerFire(code, i)

SpecClient == Init /\ [][NextClient]_vars

\* C22 as claimed: when the host of a room in phase lobby has picked a game of
\* the catalog and presses 'Start setup', the room is in phase roles with that
\* game selected once the server has handled the request.
C22_ClientStartReachesRoles ==
  [][ \A s \in Sockets, code \in OneCode, gameId \in GameInputs :
        ( /\ startGame(s, code, gameId)
          /\ IsOwnerSocket(s, rooms[code])
          /\ rooms[code].phase = "lobby" )
        => /\ rooms'[code].phase = "roles"
           /\ rooms'[code].gameId = gameId ]_vars

\* ------------------------------------------------------------------ submit again
\* C23: when the connection whose role:submit was just accepted sends the same
\* request again (same room, the role it now holds), no room changes: the
\* phase, the sender's role and flag and every other player's data stay as the
\* first submit left them, whether the room is still in phase roles or the first
\* submit moved it to ready.
C23_ResubmitChangesNothing ==
  [][ SubmitAccepted =>
        LET c == last.code
            s == last.socket
            me == PlayerIndex(rooms[c], socketIndex[s].playerId)
        IN Submit(s, c, rooms[c].players[me].roleId) => rooms' = rooms ]_vars

\* C23 witness: a player who holds a role submits in a room of two that the last
\* submit has moved to ready, and is told that roles are not open.
C23_Witness ==
  /\ last.op = "role:submit"
  /\ Refused("Roles are not open yet")
  /\ last.code \in DOMAIN rooms
  /\ rooms[last.code].phase = "ready"
  /\ Len(rooms[last.code].players) = 2
  /\ last.socket \in DOMAIN socketIndex
  /\ \E i \in 1..2 : /\ rooms[last.code].players[i].id = socketIndex[last.socket].playerId
                     /\ rooms[last.code].players[i].roleId = "merlin"

\* ------------------------------------------------------------------ departures
\* The last step was a room:leave or the expiry of a grace timer.
Departure == last.op \in {"room:leave", "timer"}

\* The members of a room that a step removes.
Gone(c) == MemberIds(rooms[c]) \ MemberIds(rooms'[c])

\* What a departure may not touch in a member.
Kept(p) == [id |-> p.id, name |-> p.name, roleId |-> p.roleId,
            hasSubmittedRole |-> p.hasSubmittedRole]

\* C24: when a room:leave or a grace expiry removes the owner of a room and
\* members remain, the owner becomes the remaining member who joined first (the
\* first in insertion order, the least player id issued); when it removes
\* another member the owner stays.
C24_OwnerPassesToEarliest ==
  [][ Departure' =>
        \A c \in Surviving :
          Gone(c) # {} =>
            IF rooms[c].ownerId \in Gone(c)
            THEN /\ rooms'[c].ownerId = rooms'[c].players[1].id
                 /\ rooms'[c].ownerId = Least(MemberIds(rooms'[c]))
            ELSE rooms'[c].ownerId = rooms[c].ownerId ]_vars

\* C24 witness: the grace timer of the owner, the first of three members, has
\* expired, and of the two who remain the second to join owns the room.
C24_Witness ==
  /\ last.op = "timer"
  /\ last.code \in DOMAIN rooms
  /\ MemberIds(rooms[last.code]) = {2, 3}
  /\ rooms[last.code].ownerId = 2

\* C25: a room:leave or a grace expiry, in any phase, removes at most one member
\* of a room and leaves the room's phase and game and the id, name, role and
\* submitted flag of every member who stays as they were, in the same order.
C25_DepartureKeepsTheRest ==
  [][ Departure' =>
        \A c \in Surviving :
          /\ Cardinality(Gone(c)) <= 1
          /\ rooms'[c].phase = rooms[c].phase
          /\ rooms'[c].gameId = rooms[c].gameId
          /\ [i \in 1..Len(rooms'[c].players) |-> Kept(rooms'[c].players[i])]
               = LET stays(p) == p.id \notin Gone(c)
                     before == SelectSeq(rooms[c].players, stays)
                 IN [i \in 1..Len(before) |-> Kept(before[i])] ]_vars

\* C25 witness: a member has left a room in phase roles; the two who stay are
\* still one with a role submitted and one without.
C25_Witness ==
  /\ last.op = "room:leave"
  /\ Emitted("room:left")
  /\ last.code = NoCode
  /\ CodeBase \in DOMAIN rooms
  /\ rooms[CodeBase].phase = "roles"
  /\ Len(rooms[CodeBase].players) = 2
  /\ \E i, j \in 1..2 : /\ rooms[CodeBase].players[i].roleId = "merlin"
                        /\ ~rooms[CodeBase].players[j].hasSubmittedRole

\* ------------------------------------------------------------------ reset, select
\* A room with no role held and no flag raised, all else as it is.
Cleared(room) ==
  [room EXCEPT !.players = [i \in 1..Len(room.players) |->
                              [room.players[i] EXCEPT !.roleId = Null,
                                                      !.hasSubmittedRole = FALSE]]]

\* C26: a room:reset from the connection bound to the room's owner, in any
\* phase, puts the room in phase lobby with no game and no role or submitted
\* flag on any player; the members, their order, the owner, every player's
\* connection state and timer, every other room and both indexes stay as they
\* were.
C26_ResetFrame ==
  [][ ( /\ last'.op = "room:reset"
        /\ last'.code \in DOMAIN rooms
        /\ BoundToOwner(last'.socket, rooms[last'.code]) )
      => /\ rooms' = [rooms EXCEPT ![last'.code] =
                        [Cleared(rooms[last'.code]) EXCEPT !.phase = "lobby",
                                                           !.gameId = Null]]
         /\ socketIndex' = socketIndex
         /\ sessionIndex' = sessionIndex
         /\ open' = open ]_vars

\* C26 witness: the owner has reset a room of two of which the other member is
\* disconnected with the grace timer running; the room is an empty lobby again
\* and the member is still disconnected.
C26_Witness ==
  /\ last.op = "room:reset"
  /\ Emitted("room:reset")
  /\ rooms[last.code].phase = "lobby"
  /\ rooms[last.code].gameId = Null
  /\ Len(rooms[last.code].players) = 2
  /\ \E i \in 1..2 : /\ ~rooms[last.code].players[i].connected
                     /\ rooms[last.code].players[i].disconnectTimer = "pending"
                     /\ rooms[last.code].players[i].id # rooms[last.code].ownerId

\* C27: a room:selectGame from the connection bound to the room's owner with a
\* game of the catalog sets the room's game to it and leaves no role and no
\* submitted flag on any player, the members being the same; with a game id the
\* catalog does not hold it is answered with the unknown-game error and changes
\* no room, so game, phase and roles stay.
C27_SelectGame ==
  [][ ( /\ last'.op = "room:selectGame"
        /\ last'.code \in DOMAIN rooms
        /\ BoundToOwner(last'.socket, rooms[last'.code]) )
      => \A gameId \in GameInputs :
           SelectGame(last'.socket, last'.code, gameId) =>
             IF gameId \in DOMAIN gameMap
             THEN /\ last'.code \in DOMAIN rooms'
                  /\ rooms'[last'.code].gameId = gameId
                  /\ rooms'[last'.code].players = Cleared(rooms[last'.code]).players
                  /\ \A k \in 1..Len(sent') : sent'[k].event # "room:error"
             ELSE /\ sent' = <<Msg(ToSocket(last'.socket), "room:error",
                                   [message |-> "Unknown game"])>>
                  /\ rooms' = rooms ]_vars

\* C27 witness: the owner of a room in phase roles, where a role is submitted,
\* has asked for a game the catalog does not hold and was refused; the game and
\* the role are still there.
C27_Witness ==
  /\ last.op = "room:selectGame"
  /\ Refused("Unknown game")
  /\ rooms[last.code].phase = "roles"
  /\ rooms[last.code].gameId = "avalon"
  /\ \E i \in 1..Len(rooms[last.code].players) :
       rooms[last.code].players[i].roleId = "merlin"

\* ------------------------------------------------------------------ submit frame
\* The role ids of the game a room has selected.
RolesOfGame(room) ==
  IF room.gameId \in DOMAIN gameMap
  THEN {gameMap[room.gameId].roles[i].id : i \in 1..Len(gameMap[room.gameId].roles)}
  ELSE {}

\* C28: an accepted role:submit changes, among the players' data, only the role
\* and the submitted flag of the player the connection index binds to the
\* sending connection, and the role it sets is one of the room's selected game;
\* a role:submit from a bound connection for a live room outside phase roles is
\* answered with the roles-not-open error, and one in phase roles from a
\* member's connection with a role id the game does not have with the
\* unknown-role error, both changing no room; and no step of any kind gives a
\* player a role unless it is a role:submit from the connection bound to that
\* player.
C28_SubmitFrame ==
  [][ /\ (last'.op = "role:submit" /\ \A k \in 1..Len(sent') : sent'[k].event # "room:error") =>
           LET c == last'.code
               me == PlayerIndex(rooms[c], socketIndex[last'.socket].playerId)
           IN /\ me # 0
              /\ rooms'[c].players[me].roleId \in RolesOfGame(rooms[c])
              /\ rooms'[c].players[me].hasSubmittedRole
              /\ \E phase \in SeqRange(Phases) :
                   rooms' = [rooms EXCEPT
                     ![c].phase = phase,
                     ![c].players[me].roleId = rooms'[c].players[me].roleId,
                     ![c].players[me].hasSubmittedRole = TRUE]
      /\ ( /\ last'.op = "role:submit"
           /\ last'.code \in DOMAIN rooms
           /\ last'.socket \in DOMAIN socketIndex ) =>
           LET room == rooms[last'.code]
               error(message) == <<Msg(ToSocket(last'.socket), "room:error",
                                       [message |-> message])>>
           IN /\ room.phase # "roles" =>
                   sent' = error("Roles are not open yet") /\ rooms' = rooms
              /\ \A roleId \in RoleInputs :
                   ( /\ Submit(last'.socket, last'.code, roleId)
                     /\ room.phase = "roles"
                     /\ PlayerIndex(room, socketIndex[last'.socket].playerId) # 0
                     /\ roleId \notin RolesOfGame(room) )
                   => sent' = error("Unknown role") /\ rooms' = rooms
      /\ \A c \in Surviving :
           \A i \in 1..Len(rooms[c].players), j \in 1..Len(rooms'[c].players) :
             ( /\ rooms[c].players[i].id = rooms'[c].players[j].id
               /\ rooms'[c].players[j].roleId # rooms[c].players[i].roleId
               /\ rooms'[c].players[j].roleId # Null )
             => /\ last'.op = "role:submit"
                /\ last'.code = c
                /\ last'.socket \in DOMAIN socketIndex
                /\ socketIndex[last'.socket].playerId = rooms[c].players[i].id ]_vars

\* C28 witness: in a room of two the assassin-to-be has just submitted; the
\* other member, who submitted merlin before, still holds it.
C28_Witness ==
  /\ SubmitAccepted
  /\ Len(rooms[last.code].players) = 2
  /\ \E i, j \in 1..2 :
       /\ rooms[last.code].players[i].id = socketIndex[last.socket].playerId
       /\ rooms[last.code].players[i].roleId = "assassin"
       /\ rooms[last.code].players[j].id # socketIndex[last.socket].playerId
       /\ rooms[last.code].players[j].roleId = "merlin"

\* ------------------------------------------------------------------ restore misses
\* C29: a session:restore without a token, with a token the session index does
\* not hold, or with one whose entry names a room or a player that is gone,
\* sends no message to anybody, binds the connection to nothing and changes no
\* room and no player; of the session index at most the stale entry of that
\* token goes.
C29_RestoreMissIsSilent ==
  [][ ( /\ last'.op = "session:restore"
        /\ LET t == last'.sessionId
           IN \/ t = NoToken
              \/ t \notin DOMAIN sessionIndex
              \/ sessionIndex[t].code \notin DOMAIN rooms
              \/ PlayerIndex(rooms[sessionIndex[t].code], sessionIndex[t].playerId) = 0 )
      => /\ sent' = << >>
         /\ rooms' = rooms
         /\ socketIndex' = socketIndex
         /\ open' = open
         /\ \A t \in DOMAIN sessionIndex :
              t # last'.sessionId => /\ t \in DOMAIN sessionIndex'
                                     /\ sessionIndex'[t] = sessionIndex[t]
         /\ DOMAIN sessionIndex' \subseteq DOMAIN sessionIndex ]_vars

\* C29 witness: a player was created and is gone with the room, and a
\* connection bound to nothing has asked to restore a token the index does not
\* hold: nothing was sent and it is still unbound.
C29_Witness ==
  /\ last.op = "session:restore"
  /\ last.sessionId # NoToken
  /\ last.sessionId \notin DOMAIN sessionIndex
  /\ issued.players > 0
  /\ rooms = EmptyMap
  /\ sent = << >>
  /\ last.socket \notin DOMAIN socketIndex

\* ------------------------------------------------------------------ grace period
\* Player id is a member of a room, disconnected, with the grace timer running.
Waiting(id) ==
  \E c \in DOMAIN rooms : \E i \in 1..Len(rooms[c].players) :
    /\ rooms[c].players[i].id = id
    /\ ~rooms[c].players[i].connected
    /\ rooms[c].players[i].disconnectTimer = "pending"

\* Player id is a member of a room and connected: a restore has bound it again.
Back(id) ==
  \E c \in DOMAIN rooms : \E i \in 1..Len(rooms[c].players) :
    rooms[c].players[i].id = id /\ rooms[c].players[i].connected

\* Player id is in no room, and the session index has no entry that names it
\* or that is kept under its token (in the full room, the token of player id is
\* id).
Removed(id) ==
  /\ \A c \in DOMAIN rooms : id \notin MemberIds(rooms[c])
  /\ id \notin DOMAIN sessionIndex
  /\ \A t \in DOMAIN sessionIndex : sessionIndex[t].playerId # id

\* C30: the disconnect of a connection that the index binds to a player of a
\* live room takes the connection's entry out of the connection index in that
\* step and leaves the player in the room, disconnected, and the session index
\* as it was; the expiry that takes a player out of a room takes the entry of
\* the player's token out of the session index in the same step; and a player
\* who waits disconnected is in the end either removed, with the token entry, or
\* connected again by a restore.
C30_DisconnectThenGraceExpiry ==
  /\ [][ /\ ( /\ last'.op = "disconnect"
              /\ last'.socket \in DOMAIN socketIndex
              /\ socketIndex[last'.socket].code \in DOMAIN rooms
              /\ PlayerIndex(rooms[socketIndex[last'.socket].code],
                             socketIndex[last'.socket].playerId) # 0 )
            => LET index == socketIndex[last'.socket]
                   i == PlayerIndex(rooms[index.code], index.playerId)
               IN /\ last'.socket \notin DOMAIN socketIndex'
                  /\ index.code \in DOMAIN rooms'
                  /\ Len(rooms'[index.code].players) = Len(rooms[index.code].players)
                  /\ rooms'[index.code].players[i].id = index.playerId
                  /\ ~rooms'[index.code].players[i].connected
                  /\ sessionIndex' = sessionIndex
         /\ last'.op = "timer" =>
              \A i \in 1..Len(rooms[last'.code].players) :
                LET p == rooms[last'.code].players[i]
                IN ( \/ last'.code \notin DOMAIN rooms'
                     \/ p.id \notin MemberIds(rooms'[last'.code]) )
                   => p.sessionId \notin DOMAIN sessionIndex' ]_vars
  /\ \A id \in 1..MaxRoster : Waiting(id) ~> (Removed(id) \/ Back(id))

\* C30 witness: the grace timer of the third member, whose connection is
\* closed, has expired: the member is out of the room and the token entry out
\* of the session index, and the others are still there.
C30_Witness ==
  /\ last.op = "timer"
  /\ 3 \notin open
  /\ Removed(3)
  /\ CodeBase \in DOMAIN rooms
  /\ MemberIds(rooms[CodeBase]) = {1, 2}

\* ------------------------------------------------------------------ broadcasts
\* What a room shows: code, owner, game, phase, and of every member in join
\* order the id, the name and the submitted flag.
PublicState(room) ==
  [code |-> room.code, ownerId |-> room.ownerId, gameId |-> room.gameId,
   phase |-> room.phase,
   players |-> [i \in 1..Len(room.players) |->
                  [id |-> room.players[i].id, name |-> room.players[i].name,
                   hasSubmittedRole |-> room.players[i].hasSubmittedRole]]]

\* The room:state payloads the step has broadcast to the group of room c, in
\* the order sent.
StatesOf(messages, c) ==
  SelectSeq(messages, LAMBDA m : m.event = "room:state" /\ m.to = ToGroup(c))

\* C31: a step after which a live room shows something else than before (or
\* that has made the room) has broadcast room:state to the room's group, and the
\* last such payload is what the room shows now; when the step wrote twice (the
\* submit that completes the roster) the payloads come in the order of the
\* writes: first the room with the role submitted and the phase as it was, then
\* the room as it is.
C31_LastBroadcastIsCurrent ==
  [][ \A c \in DOMAIN rooms' :
        (c \notin DOMAIN rooms \/ PublicState(rooms'[c]) # PublicState(rooms[c])) =>
          LET states == StatesOf(sent', c)
          IN /\ states # << >>
             /\ states[Len(states)].payload = PublicState(rooms'[c])
             /\ Len(states) <= 2
             /\ Len(states) = 2 =>
                  /\ c \in DOMAIN rooms
                  /\ states[1].payload = [PublicState(rooms'[c]) EXCEPT
                                            !.phase = rooms[c].phase]
                  /\ states[1].payload # states[2].payload ]_vars

\* C31 witness: the owner has left a room of two; the broadcast shows the one
\* member who stays, now the owner, as the room has it.
C31_Witness ==
  /\ last.op = "room:leave"
  /\ CodeBase \in DOMAIN rooms
  /\ Len(StatesOf(sent, CodeBase)) = 1
  /\ StatesOf(sent, CodeBase)[1].payload = PublicState(rooms[CodeBase])
  /\ Len(rooms[CodeBase].players) = 1
  /\ rooms[CodeBase].ownerId = 2

\* ------------------------------------------------------------------ reveal order
\* The places in the room's join order of the players a reveal payload lists.
Places(room, payload) ==
  [k \in 1..Len(payload.visiblePlayers) |->
     PlayerIndex(room, payload.visiblePlayers[k].playerId)]

\* C32: the players a room:reveal payload lists are members of the room, come
\* in the room's join order and are listed once each, whatever the scope of the
\* rule that chose them.
C32_VisibleInJoinOrder ==
  \A m \in 1..Len(Reveals) :
    LET places == Places(rooms[last.code], Reveals[m].payload)
    IN /\ \A k \in 1..Len(places) : places[k] # 0
       /\ \A k, l \in 1..Len(places) : k < l => places[k] < places[l]

\* C32 witness: the third of three members is sent a reveal that lists the
\* first and the third and leaves out the second.
C32_Witness ==
  /\ last.op = "room:reveal"
  /\ Len(Reveals) = 1
  /\ Len(rooms[last.code].players) = 3
  /\ Places(rooms[last.code], Reveals[1].payload) = <<1, 3>>
  /\ Reveals[1].to = ToSocket(3)

\* ------------------------------------------------------------------ phase data
\* Every member of the room has submitted a role.
Complete(room) == \A i \in 1..Len(room.players) : room.players[i].hasSubmittedRole

\* C33 as claimed: a room in phase roles has a member who has not submitted.
C33_RolesHasNonSubmitter ==
  \A c \in DOMAIN rooms : rooms[c].phase = "roles" => ~Complete(rooms[c])

\* C33 amended: no step but a departure brings a room to rest in phase roles
\* with every member submitted: a step after which a room is so, and was not
\* before, is a room:leave or a grace expiry that took the last member without
\* a role out of the room; a role:submit that completes the roster moves the
\* room to ready in the same step.
C33_OnlyDepartureCompletesInRoles ==
  [][ \A c \in DOMAIN rooms' :
        ( /\ rooms'[c].phase = "roles"
          /\ \A i \in 1..Len(rooms'[c].players) : rooms'[c].players[i].hasSubmittedRole
          /\ ~(c \in DOMAIN rooms /\ rooms[c].phase = "roles" /\ Complete(rooms[c])) )
        => /\ last'.op \in {"room:leave", "timer"}
           /\ c \in DOMAIN rooms
           /\ rooms[c].phase = "roles"
           /\ \E i \in 1..Len(rooms[c].players) :
                /\ ~rooms[c].players[i].hasSubmittedRole
                /\ rooms[c].players[i].id \in Gone(c) ]_vars

\* C33 witness: the member who had not submitted has left, and the room rests
\* in phase roles with its one member submitted.
C33_Witness ==
  /\ last.op = "room:leave"
  /\ CodeBase \in DOMAIN rooms
  /\ rooms[CodeBase].phase = "roles"
  /\ Len(rooms[CodeBase].players) = 1
  /\ Complete(rooms[CodeBase])

\* C34: a room in phase roles, ready or reveal has a game that the catalog
\* holds, so a reveal computed for it (which is computed in phase reveal, or in
\* the step that enters it) never falls back to the empty list of an unknown
\* game.
C34_StartedRoomHasGame ==
  \A c \in DOMAIN rooms :
    rooms[c].phase # "lobby" => rooms[c].gameId \in DOMAIN gameMap

\* C34 witness: the owner has started a room of two, which is in phase roles
\* with avalon selected.
C34_Witness ==
  /\ last.op = "room:start"
  /\ ~Emitted("room:error")
  /\ rooms[last.code].phase = "roles"
  /\ rooms[last.code].gameId = "avalon"
  /\ Len(rooms[last.code].players) = 2

\* C35: in a room in phase ready or reveal every member has the submitted flag
\* and a role, and no room:revealConfirm is answered with the error that not
\* everyone has confirmed a role.
C35_ReadyRoomIsComplete ==
  /\ \A c \in DOMAIN rooms :
       rooms[c].phase \in {"ready", "reveal"} =>
         \A i \in 1..Len(rooms[c].players) :
           /\ rooms[c].players[i].hasSubmittedRole
           /\ rooms[c].players[i].roleId # Null
  /\ ~(last.op = "room:revealConfirm" /\ Refused("Not everyone has confirmed a role"))

\* C35 witness: a member has left a room in phase ready; the one who stays
\* holds a role, and the room is still ready.
C35_Witness ==
  /\ last.op = "room:leave"
  /\ CodeBase \in DOMAIN rooms
  /\ rooms[CodeBase].phase = "ready"
  /\ Len(rooms[CodeBase].players) = 1
  /\ rooms[CodeBase].players[1].roleId # Null

\* ------------------------------------------------------------------ session index
\* C36: every entry of the session index names a live room and a player who is
\* a member of that room, also when one token is carried by several
\* connections; so session:restore never finds an entry whose room or player is
\* gone.
C36_NoStaleSessionEntry ==
  \A t \in DOMAIN sessionIndex :
    /\ sessionIndex[t].code \in DOMAIN rooms
    /\ PlayerIndex(rooms[sessionIndex[t].code], sessionIndex[t].playerId) # 0

\* C36 witness: two members of a room carry the same token, and a restore with
\* it has just bound the one the entry names.
C36_Witness ==
  /\ RestoreBound
  /\ Len(RestoredRoom.players) = 2
  /\ RestoredRoom.players[1].sessionId = RestoredRoom.players[2].sessionId
  /\ last.sessionId \in DOMAIN sessionIndex
  /\ sessionIndex[last.sessionId].playerId = RestoredPlayer.id

\* The players a step takes out of the rooms.
Leavers ==
  {id \in PlayerIds :
     /\ \E c \in DOMAIN rooms : id \in MemberIds(rooms[c])
     /\ \A c \in DOMAIN rooms' : id \notin MemberIds(rooms'[c])}

\* C37: a room:leave or a grace expiry takes out of the session index only an
\* entry that names the player it removes; every entry that names another
\* player is still there afterwards and names the same player, also when the
\* two players carry the same token.
C37_RemovalKeepsOtherEntries ==
  [][ Departure' =>
        \A t \in DOMAIN sessionIndex :
          sessionIndex[t].playerId \notin Leavers =>
            /\ t \in DOMAIN sessionIndex'
            /\ sessionIndex'[t] = sessionIndex[t] ]_vars

\* ------------------------------------------------------------------ connection index
\* C38: every player with connected = true has, under the player's own
\* connection id, an entry of the connection index that names that player; so
\* no two connected players have the same connection id.
C38_ConnectedPlayerIsIndexed ==
  \A c \in DOMAIN rooms : \A i \in 1..Len(rooms[c].players) :
    LET p == rooms[c].players[i]
    IN p.connected => /\ p.socketId \in DOMAIN socketIndex
                      /\ socketIndex[p.socketId].playerId = p.id
                      /\ socketIndex[p.socketId].code = c

\* ------------------------------------------------------------------ draining
\* The server of SpecNames with its timers: a grace timer that is set and not
\* cleared fires.
SpecNamesFair == SpecNames /\ WF_vars(GraceExpiry)

\* C39: once every connection is closed, and for as long as none is opened,
\* the grace timers empty the server: every room is deleted in the end.
C39_ClosedServerDrains ==
  (open = {}) ~> (rooms = EmptyMap \/ open # {})

\* ------------------------------------------------------------------ reveal unicast
\* The connection a message went to is bound to nobody or to this player.
OnlyTo(message, player) ==
  message.to.id \in DOMAIN socketIndex =>
    socketIndex[message.to.id].playerId = player.id

\* C40: a room:reveal computed for a player goes to a connection that the
\* connection index binds to that player, or to one it binds to nobody; never
\* to a connection bound to another player.  (An accepted room:revealConfirm
\* sends the reveal of the i-th member as its i-th room:reveal; a restore sends
\* the reveal of the player it has bound.)
C40_RevealOnlyToOwnConnection ==
  /\ RevealAccepted =>
       \A i \in 1..Len(Reveals) :
         OnlyTo(Reveals[i], rooms[last.code].players[i])
  /\ (RestoreBound /\ Reveals # << >>) => OnlyTo(Reveals[1], RestoredPlayer)

====
